---- MODULE Spec2Model ----
(***************************************************************************)
(* A model of Fulcrum's process lifecycle (App.cpp), its cross-thread      *)
(* helpers and log records (Util.cpp) and its option resolver              *)
(* (App::parseArgs).                                                       *)
(*                                                                         *)
(* The module holds several specifications over one set of variables:      *)
(*   SpecApp   signal handling, startup and App::cleanup                   *)
(*   SpecCall  Util::LambdaOnObject                                        *)
(*   SpecLog   Util::getTime and Log::~Log                                 *)
(*   SpecOpts  App::parseArgs, one option at a time in both sources        *)
(*   SpecArgs  App::App: parseArgs, the exit on failure, the startup       *)
(*   SpecPl    Pluralize2's operator<<                                     *)
(*   SpecWeb   the /stats and /debug endpoints of App::start_httpServer    *)
(*   SpecRit   Util::RunInThread step by step, RunInThread::waitForAll     *)
(*   SpecRitLive  SpecRit with the threads scheduled fairly                *)
(*   SpecRun   the slots that change Options while the server runs         *)
(* Each specification moves its own group of variables and leaves the      *)
(* other groups at their idle values.                                      *)
(***************************************************************************)
EXTENDS Integers, Sequences, FiniteSets, TLC

VARIABLES
    \* ---- App lifecycle (App.cpp) ----
    appPc,              \* position of the main thread: constructed, startctl, starthttp, running,
                        \* waitpool, stophttp, stopctl, done; fatal after Fatal
    handlersInstalled,  \* std::signal(..., gotsig) has been executed
    ct,                 \* gotsig's static int ct
    delivered,          \* number of termination signals delivered so far (history)
    firstSig,           \* the first signal delivered; 0 when none (history)
    exitCalls,          \* number of calls of app()->exit(sig)
    exitCode,           \* the argument of the last app()->exit(sig); 0 when none
    dupMsgs,            \* number of "Duplicate signal ..." lines printed
    aborted,            \* std::abort() was called
    quitting,           \* App::quitting
    blockNew,           \* Util::RunInThread::blockNew
    extant,             \* Util::RunInThread::extant
    ritMade,            \* number of RunInThread objects constructed so far
    ritRefused,         \* RunInThread objects whose constructor did not start the thread
    extantJobs,         \* ThreadPool: jobs accepted and not yet completed
    blockNewWork,       \* ThreadPool: shutdownWaitForJobs blocks new submissions
    nJobs,              \* cleanup_WaitForThreadPoolWorkers: const int nJobs
    waitElapsed,        \* ms spent so far inside shutdownWaitForJobs
    poolRes,            \* cleanup_WaitForThreadPoolWorkers: const bool res: none (not yet), drained (true), timedout (false)
    atTimeout,          \* jobs extant at the moment shutdownWaitForJobs timed out; -1 before (history)
    loggedJobs,         \* the job count printed by the "still active" warning; -1 if not printed
    controller,         \* App::controller: none, up, released
    listenersAccepting, \* the Controller's listeners accept connections
    sessions,           \* open client sessions held by the Controller
    httpServers,        \* App::httpServers: the running stats servers
    statsLeft,          \* the stats interfaces App::startup has still to start a server for
    \* ---- Util::LambdaOnObject (Util.cpp) ----
    objAlive,           \* the target QObject has not been destroyed
    thrRunning,         \* obj->thread()->isRunning()
    queue,              \* posted singleShot events of the target's thread, oldest first
    call,               \* per call of LambdaOnObject: its inputs, position and history
    \* ---- Util::getTime and Log::~Log (Util.cpp) ----
    steady,             \* std::chrono::high_resolution_clock::is_steady (fixed by the build)
    clockNs,            \* high_resolution_clock::now() - t0, in nanoseconds
    logPc,              \* per thread, its position in Log::~Log: idle, stamped
    logNow,             \* per thread, the local 'now' of Log::~Log
    stamps,             \* the timestamps assigned so far, in the order of assignment (history)
    sink,               \* the records that reached the logger, in arrival order
    \* ---- App::parseArgs (App.cpp) ----
    cli,                \* the command line: per option (by long name) the values given, in order
    conf,               \* the config file: per key the values given, in order
    confFile,           \* the positional config-file argument: none, ok
    env,                \* the environment: per variable its value, or "null" when unset
    debugBuild,         \* the build's default for Options::verboseDebug
    parsePc,            \* start, done (parseArgs returned), failed (parseArgs threw)
    options,            \* the Options that parseArgs filled in
    parseErr,           \* the exception parseArgs threw; "none" if it returned
    parseLog,           \* the records parseArgs printed, in order
    host,               \* what the process finds on its host: the data directory, the cert/key files, Qt's SSL support
    parseIo,            \* the I/O parseArgs performed, in order (history)
    exitStatus,         \* the code std::exit was called with; -1 while the process lives
    listening,          \* Controller::startup has run: the configured listeners are open
    \* ---- Pluralize2 (Pluralize2.cpp) ----
    plN,                \* Pluralize2::_n
    plWord,             \* Pluralize2::_wordIn, as the sequence of its characters
    plOut,              \* what operator<< wrote to the stream: a number and a word (written is false before)
    \* ---- the stats HTTP endpoints (App::start_httpServer) ----
    endpoints,          \* the paths that have a handler on the stats server
    responses,          \* the responses the stats server gave so far, in order
    httpPc,             \* App::start_httpServer: none, started, msg, stats, done; failed if tryStart threw
    msg404,             \* the stats server's 404 message
    \* ---- Util::RunInThread, step by step (Util.cpp) ----
    rit,                \* per RunInThread object: its position, and how often its work and completion ran
    waiter,             \* the caller of RunInThread::waitForAll: its position, result and *num
    wakeAlls,           \* number of calls of cond.wakeAll() (history)
    \* ---- the slots that change Options at run time (App.cpp) ----
    lastReq             \* the last call of one of the slots: its arguments and whether it warned (history)

sigVars  == <<ct, delivered, firstSig, exitCalls, exitCode, dupMsgs, aborted>>
ritVars  == <<blockNew, extant, ritMade, ritRefused>>
poolVars == <<extantJobs, blockNewWork>>
waitVars == <<nJobs, waitElapsed, poolRes, atTimeout, loggedJobs>>
ctlVars  == <<controller, listenersAccepting, sessions>>

appVars == <<appPc, handlersInstalled, quitting, httpServers, statsLeft,
             sigVars, ritVars, poolVars, waitVars, ctlVars>>

callVars == <<objAlive, thrRunning, queue, call>>

logVars == <<steady, clockNs, logPc, logNow, stamps, sink>>

optVars == <<cli, conf, confFile, env, debugBuild, parsePc, options, parseErr, parseLog,
            host, parseIo, exitStatus, listening>>

plVars == <<plN, plWord, plOut>>

webVars == <<endpoints, responses, httpPc, msg404>>

thrVars == <<rit, waiter, wakeAlls>>

runVars == <<lastReq>>

vars == <<appVars, callVars, logVars, optVars, plVars, webVars, thrVars, runVars>>

\* what the actions of one group leave alone
notApp  == <<callVars, logVars, optVars, plVars, webVars, thrVars, runVars>>
notCall == <<appVars, logVars, optVars, plVars, webVars, thrVars, runVars>>
notLog  == <<appVars, callVars, optVars, plVars, webVars, thrVars, runVars>>
notOpts == <<appVars, callVars, logVars, plVars, webVars, thrVars, runVars>>
notPl   == <<appVars, callVars, logVars, optVars, webVars, thrVars, runVars>>
notWeb  == <<appVars, callVars, logVars, optVars, plVars, thrVars, runVars>>
\* what the steps of RunInThread leave alone: all but blockNew, extant, ritMade, ritRefused
notThr  == <<appPc, handlersInstalled, quitting, httpServers, statsLeft, sigVars, poolVars, waitVars,
             ctlVars, callVars, logVars, optVars, plVars, webVars, runVars>>
\* what the slots that change Options leave alone: all but options
notRun  == <<cli, conf, confFile, env, debugBuild, parsePc, parseErr, parseLog,
             host, parseIo, exitStatus, listening,
             appVars, callVars, logVars, plVars, webVars, thrVars>>

----------------------------------------------------------------------------
(* Bounds of the model *)

MaxRit == 2
MaxJobs == 2
MaxSessions == 2
MaxHttp == 2
MaxCalls == 2
MaxRecords == 3
MaxClockSteps == 4
MaxWordLen == 3
MaxCount == 2
MaxRequests == 2

(* Program constants *)

SIGINT == 2
SIGQUIT == 3
SIGTERM == 15
\* App::cleanup_WaitForThreadPoolWorkers: constexpr int timeout = 5000
timeout == 5000

Signals == {SIGINT, SIGTERM, SIGQUIT}

\* std::chrono::milliseconds against the clock's nanoseconds
NsPerMs == 1000000

\* granularity at which the model lets the wait's elapsed time advance
TickMs == timeout \div 5

----------------------------------------------------------------------------
(* App lifecycle *)

AppInit ==
    /\ appPc = "constructed"
    /\ handlersInstalled = FALSE
    /\ ct = 0
    /\ delivered = 0
    /\ firstSig = 0
    /\ exitCalls = 0
    /\ exitCode = 0
    /\ dupMsgs = 0
    /\ aborted = FALSE
    /\ quitting = FALSE
    /\ blockNew = FALSE
    /\ extant = {}
    /\ ritMade = 0
    /\ ritRefused = {}
    /\ extantJobs = 0
    /\ blockNewWork = FALSE
    /\ nJobs = 0
    /\ waitElapsed = 0
    /\ poolRes = "none"
    /\ atTimeout = -1
    /\ loggedJobs = -1
    /\ controller = "none"
    /\ listenersAccepting = FALSE
    /\ sessions = {}
    /\ httpServers = {}
    /\ statsLeft = 0

\* The process has neither aborted, nor ended in Fatal, nor finished
\* App::cleanup.
Alive == ~aborted /\ appPc \notin {"done", "fatal"}

\* stats servers first, the Controller last (not what the code does)
StartupNextHttpFirst(pc) ==
    IF pc = "constructed" THEN "starthttp"
    ELSE IF pc = "starthttp" THEN "startctl"
    ELSE "running"

\* The order of App::startup's steps: the step that follows step pc.
StartupNext(pc) ==
    IF pc = "constructed" THEN "startctl"
    ELSE IF pc = "startctl" THEN "starthttp"
    ELSE "running"

\* App::startup begins: it installs the signal handlers. The Options name
\* n stats interfaces.
Startup ==
    /\ appPc = "constructed" /\ ~aborted
    /\ handlersInstalled' = TRUE
    /\ \E n \in 0..MaxHttp : statsLeft' = n
    /\ appPc' = StartupNext("constructed")
    /\ UNCHANGED <<quitting, httpServers, sigVars, ritVars, poolVars, waitVars, ctlVars>>
    /\ UNCHANGED notApp

\* App::startup: the Controller is created and its startup() returns: the
\* listeners are up.
StartController ==
    /\ appPc = "startctl" /\ ~aborted
    /\ controller' = "up"
    /\ listenersAccepting' = TRUE
    /\ appPc' = StartupNext("startctl")
    /\ UNCHANGED <<handlersInstalled, quitting, httpServers, statsLeft, sessions,
                   sigVars, ritVars, poolVars, waitVars>>
    /\ UNCHANGED notApp

\* App::startup: controller->startup() throws; the catch block ends in
\* Fatal, which terminates the process. The Controller object exists, its
\* listeners do not.
StartControllerThrows ==
    /\ appPc = "startctl" /\ ~aborted
    /\ controller' = "failed"
    /\ appPc' = "fatal"
    /\ UNCHANGED <<handlersInstalled, quitting, httpServers, statsLeft, listenersAccepting,
                   sessions, sigVars, ritVars, poolVars, waitVars>>
    /\ UNCHANGED notApp

\* App::startup: start_httpServer(i) for the next stats interface returns,
\* the server runs.
StartStatsServer ==
    /\ appPc = "starthttp" /\ ~aborted
    /\ statsLeft > 0
    /\ httpServers' = httpServers \cup {Cardinality(httpServers) + 1}
    /\ statsLeft' = statsLeft - 1
    /\ UNCHANGED <<appPc, handlersInstalled, quitting, sigVars, ritVars, poolVars,
                   waitVars, ctlVars>>
    /\ UNCHANGED notApp

\* App::startup: start_httpServer(i) throws (tryStart); the catch block ends
\* in Fatal, which terminates the process.
StartStatsServerThrows ==
    /\ appPc = "starthttp" /\ ~aborted
    /\ statsLeft > 0
    /\ appPc' = "fatal"
    /\ UNCHANGED <<handlersInstalled, quitting, httpServers, statsLeft, sigVars, ritVars,
                   poolVars, waitVars, ctlVars>>
    /\ UNCHANGED notApp

\* App::startup: no stats interface is left, the loop ends.
StatsServersStarted ==
    /\ appPc = "starthttp" /\ ~aborted
    /\ statsLeft = 0
    /\ appPc' = StartupNext("starthttp")
    /\ UNCHANGED <<handlersInstalled, quitting, httpServers, statsLeft, sigVars, ritVars,
                   poolVars, waitVars, ctlVars>>
    /\ UNCHANGED notApp

\* gotsig with the duplicate range one too wide (ct <= 5)
GotsigBranchOffByOne(old) ==
    IF old = 0 THEN "exit"
    ELSE IF old + 1 <= 5 THEN "duplicate"
    ELSE "abort"

\* The branch gotsig takes for the value ct had before its ct++.
GotsigBranch(old) ==
    IF old = 0 THEN "exit"
    ELSE IF old + 1 < 5 THEN "duplicate"
    ELSE "abort"

\* gotsig(sig): one delivery of a termination signal, run to completion.
Gotsig(sig) ==
    /\ handlersInstalled /\ ~aborted /\ appPc # "fatal"
    /\ ct' = ct + 1
    /\ delivered' = delivered + 1
    /\ firstSig' = IF delivered = 0 THEN sig ELSE firstSig
    /\ LET br == GotsigBranch(ct) IN
        /\ exitCalls' = IF br = "exit" THEN exitCalls + 1 ELSE exitCalls
        /\ exitCode' = IF br = "exit" THEN sig ELSE exitCode
        /\ dupMsgs' = IF br = "duplicate" THEN dupMsgs + 1 ELSE dupMsgs
        /\ aborted' = (br = "abort")
    /\ UNCHANGED <<appPc, handlersInstalled, quitting, httpServers, statsLeft,
                   ritVars, poolVars, waitVars, ctlVars>>
    /\ UNCHANGED notApp

Signal == \E sig \in Signals : Gotsig(sig)

\* Whether the RunInThread constructor starts the thread.
RitStarts == ~blockNew

\* RunInThread::RunInThread: registers the thread in extant and starts it,
\* unless blockNew is set.
RunInThreadCtor ==
    /\ Alive /\ appPc # "constructed"
    /\ ritMade < MaxRit
    /\ ritMade' = ritMade + 1
    /\ IF RitStarts
         THEN extant' = extant \cup {ritMade + 1} /\ ritRefused' = ritRefused
         ELSE ritRefused' = ritRefused \cup {ritMade + 1} /\ extant' = extant
    /\ UNCHANGED <<appPc, handlersInstalled, quitting, httpServers, statsLeft, blockNew,
                   sigVars, poolVars, waitVars, ctlVars>>
    /\ UNCHANGED notApp

\* RunInThread::run followed by RunInThread::done: the work function has
\* returned, the completion signal was emitted, the thread leaves extant.
RunInThreadDone ==
    /\ ~aborted /\ appPc # "fatal"
    /\ \E r \in extant : extant' = extant \ {r}
    /\ UNCHANGED <<appPc, handlersInstalled, quitting, httpServers, statsLeft, blockNew,
                   ritMade, ritRefused, sigVars, poolVars, waitVars, ctlVars>>
    /\ UNCHANGED notApp

\* ThreadPool submit: accepted unless the pool is shutting down or the
\* in-flight count has reached the cap.
SubmitJob ==
    /\ Alive /\ appPc # "constructed"
    /\ ~blockNewWork
    /\ extantJobs < MaxJobs
    /\ extantJobs' = extantJobs + 1
    /\ UNCHANGED <<appPc, handlersInstalled, quitting, httpServers, statsLeft, blockNewWork,
                   sigVars, ritVars, waitVars, ctlVars>>
    /\ UNCHANGED notApp

\* A pool worker completes a job.
JobFinish ==
    /\ ~aborted /\ appPc # "fatal"
    /\ extantJobs > 0
    /\ extantJobs' = extantJobs - 1
    /\ UNCHANGED <<appPc, handlersInstalled, quitting, httpServers, statsLeft, blockNewWork,
                   sigVars, ritVars, waitVars, ctlVars>>
    /\ UNCHANGED notApp

\* A listener accepts a connection and registers a Session.
AcceptSession ==
    /\ Alive
    /\ controller = "up" /\ listenersAccepting
    /\ Cardinality(sessions) < MaxSessions
    /\ \E s \in 1..MaxSessions : s \notin sessions /\ sessions' = sessions \cup {s}
    /\ UNCHANGED <<appPc, handlersInstalled, quitting, httpServers, statsLeft, controller,
                   listenersAccepting, sigVars, ritVars, poolVars, waitVars>>
    /\ UNCHANGED notApp

\* controller cleanup first, stats servers last (not what the code does)
CleanupNextCtlFirst(pc) ==
    IF pc = "waitpool" THEN "stopctl"
    ELSE IF pc = "stopctl" THEN "stophttp"
    ELSE "done"

\* The order of App::cleanup's steps: the step that follows step pc.
CleanupNext(pc) ==
    IF pc = "waitpool" THEN "stophttp"
    ELSE IF pc = "stophttp" THEN "stopctl"
    ELSE "done"

\* App::cleanup up to the point where shutdownWaitForJobs blocks: runs when
\* the event loop was told to exit (aboutToQuit). Sets quitting, samples
\* nJobs and enters the pool's shutdown wait, which blocks new submissions.
CleanupBegin ==
    /\ appPc = "running" /\ ~aborted
    /\ exitCalls > 0
    /\ quitting' = TRUE
    /\ nJobs' = extantJobs
    /\ blockNewWork' = TRUE
    /\ waitElapsed' = 0
    /\ appPc' = "waitpool"
    /\ UNCHANGED <<handlersInstalled, httpServers, statsLeft, extantJobs, poolRes, atTimeout,
                   loggedJobs, sigVars, ritVars, ctlVars>>
    /\ UNCHANGED notApp

\* Time passes while the main thread is blocked in shutdownWaitForJobs.
WaitTick ==
    /\ appPc = "waitpool" /\ ~aborted
    /\ extantJobs > 0
    /\ waitElapsed + TickMs <= timeout
    /\ waitElapsed' = waitElapsed + TickMs
    /\ UNCHANGED <<appPc, handlersInstalled, quitting, httpServers, statsLeft, nJobs, poolRes,
                   atTimeout, loggedJobs, sigVars, ritVars, poolVars, ctlVars>>
    /\ UNCHANGED notApp

\* shutdownWaitForJobs returns true: the pool has drained. The debug line
\* of the else-branch prints nothing the model keeps.
WaitDrained ==
    /\ appPc = "waitpool" /\ ~aborted
    /\ extantJobs = 0
    /\ poolRes' = "drained"
    /\ appPc' = CleanupNext("waitpool")
    /\ UNCHANGED <<handlersInstalled, quitting, httpServers, statsLeft, nJobs, waitElapsed,
                   atTimeout, loggedJobs, sigVars, ritVars, poolVars, ctlVars>>
    /\ UNCHANGED notApp

\* The job count the "still active" warning prints after a timeout.
StillActiveCount == nJobs

\* shutdownWaitForJobs returns false after the timeout; the warning
\* "After %d seconds, %d thread pool workers are still active" is printed.
WaitTimeout ==
    /\ appPc = "waitpool" /\ ~aborted
    /\ extantJobs > 0
    /\ waitElapsed >= timeout
    /\ poolRes' = "timedout"
    /\ atTimeout' = extantJobs
    /\ loggedJobs' = StillActiveCount
    /\ appPc' = CleanupNext("waitpool")
    /\ UNCHANGED <<handlersInstalled, quitting, httpServers, statsLeft, nJobs, waitElapsed,
                   sigVars, ritVars, poolVars, ctlVars>>
    /\ UNCHANGED notApp

\* App::cleanup: every stats HTTP server is stopped and the list cleared.
StopHttpServers ==
    /\ appPc = "stophttp" /\ ~aborted
    /\ httpServers' = {}
    /\ appPc' = CleanupNext("stophttp")
    /\ UNCHANGED <<handlersInstalled, quitting, statsLeft, sigVars, ritVars, poolVars,
                   waitVars, ctlVars>>
    /\ UNCHANGED notApp

\* App::cleanup: controller->cleanup() stops the listeners and closes all
\* sessions; controller.reset() releases the Controller.
StopController ==
    /\ appPc = "stopctl" /\ ~aborted
    /\ IF controller = "up"
         THEN /\ listenersAccepting' = FALSE
              /\ sessions' = {}
              /\ controller' = "released"
         ELSE UNCHANGED ctlVars
    /\ appPc' = CleanupNext("stopctl")
    /\ UNCHANGED <<handlersInstalled, quitting, httpServers, statsLeft, sigVars, ritVars,
                   poolVars, waitVars>>
    /\ UNCHANGED notApp

AppIdle == AppInit

NextApp ==
    \/ Startup
    \/ StartController
    \/ StartControllerThrows
    \/ StartStatsServer
    \/ StartStatsServerThrows
    \/ StatsServersStarted
    \/ Signal
    \/ RunInThreadCtor
    \/ RunInThreadDone
    \/ SubmitJob
    \/ JobFinish
    \/ AcceptSession
    \/ CleanupBegin
    \/ WaitTick
    \/ WaitDrained
    \/ WaitTimeout
    \/ StopHttpServers
    \/ StopController

----------------------------------------------------------------------------
(* Util::RunInThread, step by step, and RunInThread::waitForAll *)

Rits == 1..MaxRit

\* blocked: the value of blockNew the constructor read (history)
NoRit == [pc |-> "none", blocked |-> FALSE, work |-> 0, queued |-> FALSE, completion |-> 0]

NoWaiter == [pc |-> "idle", hasNum |-> FALSE, num |-> -1, res |-> "none", atReturn |-> {}]

ThrInit ==
    /\ rit = [r \in Rits |-> NoRit]
    /\ waiter = NoWaiter
    /\ wakeAlls = 0

ThrIdle == ThrInit

\* A store of true to the static atomic RunInThread::blockNew, by the
\* shutdown code. No statement under src/ writes the flag.
SetBlockNew ==
    /\ ~blockNew
    /\ blockNew' = TRUE
    /\ UNCHANGED <<extant, ritMade, ritRefused, thrVars>>
    /\ UNCHANGED notThr

\* the constructor without its test of blockNew
CtorNeverRefuses(b) == FALSE

\* The constructor's test: if (!blockNew) ... else Warning()
CtorRefuses(b) == b

\* RunInThread::RunInThread up to the test of blockNew: the completion
\* callback is connected; with blockNew set only the warning is printed.
RitCtorTest(r) ==
    /\ rit[r].pc = "none"
    /\ r = ritMade + 1
    /\ ritMade' = ritMade + 1
    /\ IF CtorRefuses(blockNew)
         THEN /\ rit' = [rit EXCEPT ![r].pc = "refused", ![r].blocked = blockNew]
              /\ ritRefused' = ritRefused \cup {r}
         ELSE /\ rit' = [rit EXCEPT ![r].pc = "tested", ![r].blocked = blockNew]
              /\ ritRefused' = ritRefused
    /\ UNCHANGED <<blockNew, extant, waiter, wakeAlls>>
    /\ UNCHANGED notThr

\* The constructor's block under the mutex: extant.insert(this).
RitCtorInsert(r) ==
    /\ rit[r].pc = "tested"
    /\ extant' = extant \cup {r}
    /\ rit' = [rit EXCEPT ![r].pc = "inserted"]
    /\ UNCHANGED <<blockNew, ritMade, ritRefused, waiter, wakeAlls>>
    /\ UNCHANGED notThr

\* start(): the thread begins running; run() calls the work function.
RitStart(r) ==
    /\ rit[r].pc = "inserted"
    /\ rit' = [rit EXCEPT ![r].pc = "working", ![r].work = @ + 1]
    /\ UNCHANGED <<blockNew, extant, ritMade, ritRefused, waiter, wakeAlls>>
    /\ UNCHANGED notThr

\* The work function returns.
RitWorkReturns(r) ==
    /\ rit[r].pc = "working"
    /\ rit' = [rit EXCEPT ![r].pc = "worked"]
    /\ UNCHANGED <<blockNew, extant, ritMade, ritRefused, waiter, wakeAlls>>
    /\ UNCHANGED notThr

\* emit onCompletion(): the completion is queued to the receiver's thread.
RitEmit(r) ==
    /\ rit[r].pc = "worked"
    /\ rit' = [rit EXCEPT ![r].pc = "emitted", ![r].queued = TRUE]
    /\ UNCHANGED <<blockNew, extant, ritMade, ritRefused, waiter, wakeAlls>>
    /\ UNCHANGED notThr

\* done() that wakes the waiter after every removal
WakesAlways(left) == TRUE

\* done(): if (extant.isEmpty()) cond.wakeAll()
Wakes(left) == left = {}

\* RunInThread::done, all of it under the mutex: the thread leaves extant,
\* and cond.wakeAll() wakes a waiter that is inside cond.wait.
RitDone(r) ==
    /\ rit[r].pc = "emitted"
    /\ extant' = extant \ {r}
    /\ rit' = [rit EXCEPT ![r].pc = "finished"]
    /\ IF Wakes(extant \ {r})
         THEN /\ wakeAlls' = wakeAlls + 1
              /\ waiter' = IF waiter.pc = "waiting" THEN [waiter EXCEPT !.pc = "woken"]
                           ELSE waiter
         ELSE UNCHANGED <<wakeAlls, waiter>>
    /\ UNCHANGED <<blockNew, ritMade, ritRefused>>
    /\ UNCHANGED notThr

\* The receiver's thread runs the slot connected in the constructor: the
\* completion callback, then deleteLater().
RitCompletion(r) ==
    /\ rit[r].queued
    /\ rit' = [rit EXCEPT ![r].queued = FALSE, ![r].completion = @ + 1]
    /\ UNCHANGED <<blockNew, extant, ritMade, ritRefused, waiter, wakeAlls>>
    /\ UNCHANGED notThr

\* waitForAll(timeout, msg, num) from its lock of the mutex to its return
\* (extant is empty) or to cond.wait, which gives the mutex up.
WaitForAll(hasNum) ==
    /\ waiter.pc = "idle"
    /\ waiter' =
         IF extant # {}
           THEN [waiter EXCEPT !.pc = "waiting", !.hasNum = hasNum,
                               !.num = IF hasNum THEN Cardinality(extant) ELSE @]
           ELSE [waiter EXCEPT !.pc = "returned", !.hasNum = hasNum, !.res = "true",
                               !.num = IF hasNum THEN 0 ELSE @, !.atReturn = extant]
    /\ UNCHANGED <<blockNew, extant, ritMade, ritRefused, rit, wakeAlls>>
    /\ UNCHANGED notThr

\* The timeout of cond.wait passes with no wakeAll.
WaitTimesOut ==
    /\ waiter.pc = "waiting"
    /\ waiter' = [waiter EXCEPT !.pc = "timedout"]
    /\ UNCHANGED <<blockNew, extant, ritMade, ritRefused, rit, wakeAlls>>
    /\ UNCHANGED notThr

\* cond.wait takes the mutex again and returns; waitForAll reads
\* extant.count() after a timeout and returns notTimedOut.
WaitReturns ==
    /\ waiter.pc \in {"woken", "timedout"}
    /\ waiter' = [waiter EXCEPT
                    !.pc = "returned",
                    !.res = IF waiter.pc = "woken" THEN "true" ELSE "false",
                    !.num = IF waiter.pc = "timedout" /\ waiter.hasNum
                              THEN Cardinality(extant) ELSE @,
                    !.atReturn = extant]
    /\ UNCHANGED <<blockNew, extant, ritMade, ritRefused, rit, wakeAlls>>
    /\ UNCHANGED notThr

RitCtor == \E r \in Rits : RitCtorTest(r) \/ RitCtorInsert(r)

RitRun == \E r \in Rits : RitStart(r) \/ RitWorkReturns(r) \/ RitEmit(r) \/ RitDone(r)

RitSlot == \E r \in Rits : RitCompletion(r)

RitWait == (\E hasNum \in BOOLEAN : WaitForAll(hasNum)) \/ WaitTimesOut \/ WaitReturns

NextRit ==
    \/ SetBlockNew
    \/ RitCtor
    \/ RitRun
    \/ RitSlot
    \/ RitWait

----------------------------------------------------------------------------
(* Util::LambdaOnObject *)

Calls == 1..MaxCalls

\* The threads a call may come from: the target object's thread or another.
Threads == {"owner", "other"}

\* timeout_ms: zero, some finite time, or the largest value (wait forever)
Timeouts == {"zero", "finite", "forever"}

NoCall == [pc |-> "idle", caller |-> "other", tmo |-> "zero", isNull |-> FALSE,
           runAtSubmit |-> FALSE, res |-> "none", holds |-> FALSE, chan |-> FALSE,
           fpc |-> "none", started |-> 0, done |-> 0, enq |-> FALSE,
           waited |-> FALSE, doneAtRet |-> FALSE, killed |-> FALSE]

\* Before any call: the object exists; its thread may or may not have been
\* started yet.
CallInit ==
    /\ objAlive = TRUE
    /\ thrRunning \in BOOLEAN
    /\ queue = <<>>
    /\ call = [c \in Calls |-> NoCall]

CallIdle ==
    /\ objAlive = TRUE
    /\ thrRunning = FALSE
    /\ queue = <<>>
    /\ call = [c \in Calls |-> NoCall]

\* LambdaOnObject without the isRunning() test
EntrySkipsRunningCheck(isNull, caller, running) ==
    IF isNull THEN "null"
    ELSE IF caller = "owner" THEN "inline"
    ELSE "enqueue"

\* LambdaOnObject with the thread comparison lost: always posts
EntryNeverInline(isNull, caller, running) ==
    IF isNull THEN "null"
    ELSE IF ~running THEN "notrunning"
    ELSE "enqueue"

\* The path LambdaOnObject takes: a null lambda returns true at once; on the
\* target's own thread the lambda runs inline; from another thread the call
\* returns false if the target's thread is not running, else it posts.
LambdaOnObjectEntry(isNull, caller, running) ==
    IF isNull THEN "null"
    ELSE IF caller = "owner" THEN "inline"
    ELSE IF ~running THEN "notrunning"
    ELSE "enqueue"

\* LambdaOnObject up to its return or up to the blocking chan.get.
CallStart(c, t, tm, n) ==
    /\ call[c].pc = "idle"
    /\ objAlive
    /\ (t = "owner" => thrRunning)
    /\ LET path == LambdaOnObjectEntry(n, t, thrRunning)
           in0  == [call[c] EXCEPT !.caller = t, !.tmo = tm, !.isNull = n,
                                   !.runAtSubmit = thrRunning]
       IN
        /\ call' = [call EXCEPT ![c] =
             IF path = "null"
               THEN [in0 EXCEPT !.pc = "returned", !.res = "true"]
             ELSE IF path = "inline"
               THEN [in0 EXCEPT !.pc = "returned", !.res = "true",
                                !.started = 1, !.done = 1, !.doneAtRet = TRUE]
             ELSE IF path = "notrunning"
               THEN [in0 EXCEPT !.pc = "returned", !.res = "false"]
             ELSE [in0 EXCEPT !.pc = "waiting", !.holds = TRUE, !.fpc = "queued",
                              !.enq = TRUE, !.waited = TRUE]]
        /\ queue' = IF path = "enqueue" THEN Append(queue, c) ELSE queue
    /\ UNCHANGED <<objAlive, thrRunning>>
    /\ UNCHANGED notCall

LambdaOnObject ==
    \E c \in Calls, t \in Threads, tm \in Timeouts, n \in BOOLEAN : CallStart(c, t, tm, n)

\* the functor without the weak_ptr test: runs the lambda whenever delivered
LockAlwaysSucceeds(c) == TRUE

\* weakShared.lock(): succeeds while the caller still holds the shared state,
\* that is, until LambdaOnObject returns.
LockSucceeds(c) == call[c].holds

\* the functor with its two statements swapped: chan.put(true) before the lambda
FunctorPutsFirst == TRUE

\* Whether the functor puts true on the channel before it runs the lambda
\* (it does not: lambda(), then chan.put(true)).
FunctorPutsBeforeLambda == FALSE

\* The target's thread delivers the oldest posted event: the functor locks
\* the shared state and, if it got it, starts the lambda.
Deliver ==
    /\ thrRunning
    /\ queue # <<>>
    /\ \A d \in Calls : call[d].fpc # "running"
    /\ LET c == Head(queue) IN
        call' = [call EXCEPT ![c] =
            IF LockSucceeds(c)
              THEN [@ EXCEPT !.fpc = "running", !.started = @ + 1,
                             !.chan = FunctorPutsBeforeLambda]
              ELSE [@ EXCEPT !.fpc = "skipped"]]
    /\ queue' = Tail(queue)
    /\ UNCHANGED <<objAlive, thrRunning>>
    /\ UNCHANGED notCall

\* The lambda returns and the functor puts true on the channel.
FunctorEnd ==
    /\ \E c \in Calls :
        /\ call[c].fpc = "running"
        /\ call' = [call EXCEPT ![c] =
                      [@ EXCEPT !.fpc = "done", !.done = @ + 1, !.chan = TRUE]]
    /\ UNCHANGED <<objAlive, thrRunning, queue>>
    /\ UNCHANGED notCall

\* chan.get<bool>(timeout_ms) returns the value that was put.
ChanGet ==
    /\ \E c \in Calls :
        /\ call[c].pc = "waiting"
        /\ call[c].chan
        /\ call' = [call EXCEPT ![c] =
                      [@ EXCEPT !.pc = "returned", !.res = "true", !.holds = FALSE,
                                !.doneAtRet = (call[c].done > 0)]]
    /\ UNCHANGED <<objAlive, thrRunning, queue>>
    /\ UNCHANGED notCall

\* what LambdaOnObject returns when chan.get timed out, answering true
TimeoutResultTrue == "true"

\* What LambdaOnObject returns when chan.get<bool> timed out.
TimeoutResult == "false"

\* chan.get<bool>(timeout_ms) times out with nothing put.
ChanTimeout ==
    /\ \E c \in Calls :
        /\ call[c].pc = "waiting"
        /\ ~call[c].chan
        /\ call[c].tmo # "forever"
        /\ call' = [call EXCEPT ![c] =
                      [@ EXCEPT !.pc = "returned", !.res = TimeoutResult, !.holds = FALSE,
                                !.doneAtRet = (call[c].done > 0)]]
    /\ UNCHANGED <<objAlive, thrRunning, queue>>
    /\ UNCHANGED notCall

\* singleShot without the context object: the posted events outlive it
QueueAfterDestroyKept(q) == q

\* The events posted with the target as context do not survive it.
QueueAfterDestroy(q) == <<>>

\* The target object is destroyed by its owner (not from inside a functor).
ObjDestroy ==
    /\ objAlive
    /\ \A d \in Calls : call[d].fpc # "running"
    /\ objAlive' = FALSE
    /\ queue' = QueueAfterDestroy(queue)
    /\ call' = [c \in Calls |->
                  IF \E i \in 1..Len(queue) : queue[i] = c
                    THEN [call[c] EXCEPT !.killed = TRUE,
                            !.fpc = IF queue' = <<>> THEN "discarded" ELSE @]
                    ELSE call[c]]
    /\ UNCHANGED thrRunning
    /\ UNCHANGED notCall

\* The target's thread starts or finishes; a finished thread delivers nothing.
ThreadStart ==
    /\ ~thrRunning
    /\ thrRunning' = TRUE
    /\ UNCHANGED <<objAlive, queue, call>>
    /\ UNCHANGED notCall

ThreadStop ==
    /\ thrRunning
    /\ \A d \in Calls : call[d].fpc # "running"
    /\ thrRunning' = FALSE
    /\ UNCHANGED <<objAlive, queue, call>>
    /\ UNCHANGED notCall

NextCall ==
    \/ LambdaOnObject
    \/ Deliver
    \/ FunctorEnd
    \/ ChanGet
    \/ ChanTimeout
    \/ ObjDestroy
    \/ ThreadStart
    \/ ThreadStop

----------------------------------------------------------------------------
(* Util::getTime and Log::~Log *)

LogThreads == {"main", "worker"}

\* the step by which the model lets the clock move: half a millisecond
ClockStep == NsPerMs \div 2

LogInit ==
    /\ steady \in BOOLEAN
    /\ clockNs = 0
    /\ logPc = [t \in LogThreads |-> "idle"]
    /\ logNow = [t \in LogThreads |-> 0]
    /\ stamps = <<>>
    /\ sink = <<>>

LogIdle ==
    /\ steady = TRUE
    /\ clockNs = 0
    /\ logPc = [t \in LogThreads |-> "idle"]
    /\ logNow = [t \in LogThreads |-> 0]
    /\ stamps = <<>>
    /\ sink = <<>>

\* getTime with its operands swapped: t0 - now
GetTimeSwapped(ns) ==
    IF (0 - ns) >= 0 THEN (0 - ns) \div NsPerMs ELSE 0 - (ns \div NsPerMs)

\* Util::getTime for a clock reading of ns nanoseconds since t0:
\* duration_cast<milliseconds> truncates toward zero.
GetTime(ns) ==
    IF ns >= 0 THEN ns \div NsPerMs ELSE 0 - ((0 - ns) \div NsPerMs)

\* Time passes.
ClockAdvance ==
    /\ clockNs + ClockStep <= MaxClockSteps * ClockStep
    /\ clockNs' = clockNs + ClockStep
    /\ UNCHANGED <<steady, logPc, logNow, stamps, sink>>
    /\ UNCHANGED notLog

\* A clock that is not steady is set back (the system time was adjusted).
ClockSetBack ==
    /\ ~steady
    /\ clockNs - ClockStep >= 0 - MaxClockSteps * ClockStep
    /\ clockNs' = clockNs - ClockStep
    /\ UNCHANGED <<steady, logPc, logNow, stamps, sink>>
    /\ UNCHANGED notLog

\* Log::~Log on thread t, up to const auto now = Util::getTime().
LogStamp(t) ==
    /\ logPc[t] = "idle"
    /\ Len(stamps) < MaxRecords
    /\ logNow' = [logNow EXCEPT ![t] = GetTime(clockNs)]
    /\ stamps' = Append(stamps, GetTime(clockNs))
    /\ logPc' = [logPc EXCEPT ![t] = "stamped"]
    /\ UNCHANGED <<steady, clockNs, sink>>
    /\ UNCHANGED notLog

\* Log::~Log on thread t, the rest: the record, with its timestamp and the
\* thread it came from, is handed to the logger.
LogEmit(t) ==
    /\ logPc[t] = "stamped"
    /\ sink' = Append(sink, [ts |-> logNow[t], thread |-> t])
    /\ logPc' = [logPc EXCEPT ![t] = "idle"]
    /\ UNCHANGED <<steady, clockNs, logNow, stamps>>
    /\ UNCHANGED notLog

LogDtorStamp == \E t \in LogThreads : LogStamp(t)

LogDtorEmit == \E t \in LogThreads : LogEmit(t)

NextLog ==
    \/ ClockAdvance
    \/ ClockSetBack
    \/ LogDtorStamp
    \/ LogDtorEmit

----------------------------------------------------------------------------
(* App::parseArgs *)

\* The long names of the modelled options, in the order of allOptions.
AllOptions == <<"datadir", "tcp", "ssl", "ws", "wss", "cert", "key", "wss-cert", "wss-key",
                "admin", "stats", "bitcoind", "rpcuser", "rpcpassword",
                "debug", "quiet", "polltime", "ts-format">>

OptNames == {AllOptions[i] : i \in 1..Len(AllOptions)}

\* The keys that only the config file knows.
ConfOnlyKeys ==
    {"tor_proxy", "tor_user", "tor_pass", "max_clients_per_ip", "max_buffer",
     "bitcoind_throttle"}

\* Every key of the command line and of the config file.
Keys == OptNames \cup ConfOnlyKeys

\* QCommandLineParser: the default value of an option that has one.
ParserDefault(k) == IF k = "polltime" THEN <<"2">> ELSE <<>>

\* F at the value of v, with v computed once
With(v, F(_)) == CHOOSE r \in {F(x) : x \in {v}} : TRUE

\* QCommandLineParser::isSet, values and value (the last value given, else
\* the default, else the empty string).
ParserIsSet(cl, k) == cl[k] # <<>>

ParserValues(cl, k) == IF cl[k] # <<>> THEN cl[k] ELSE ParserDefault(k)

ParserValue(cl, k) ==
    LET vs == ParserValues(cl, k) IN IF vs = <<>> THEN "" ELSE vs[Len(vs)]

\* ConfigFile::hasValue, values, value(key, default) and remove.
ConfHasValue(cf, k) == cf[k] # <<>>

ConfValues(cf, k) == cf[k]

ConfValue(cf, k, def) == IF cf[k] # <<>> THEN cf[k][1] ELSE def

ConfRemove(cf, k) == [cf EXCEPT ![k] = <<>>]

\* The strings a boolean key reads as true: toInt() nonzero, or one of
\* yes, true, on and the empty string.
BoolStr(str) == str \in {"1", "yes", "true", "on", ""}

ConfBoolValue(cf, k) == ConfHasValue(cf, k) /\ BoolStr(ConfValue(cf, k, ""))

\* the dupe check without its conf.remove(name)
DupeRemoveNothing(cl, cf, k) == cf

\* The dupe check's effect on the config for one option name: a key set in
\* both places is removed from the config.
DupeRemove(cl, cf, k) ==
    IF ConfHasValue(cf, k) /\ ParserIsSet(cl, k) THEN ConfRemove(cf, k) ELSE cf

\* The record DupeMsg prints for one option name, if any (through qInfo).
DupeRecords(cl, cf, k) ==
    IF ConfHasValue(cf, k) /\ ParserIsSet(cl, k)
      THEN <<[level |-> "Info", what |-> "dupe", key |-> k]>>
      ELSE <<>>

\* The dupe loop over allOptions[i..]: the config it leaves and the records
\* it prints.
RECURSIVE DupeLoop(_, _, _)
DupeLoop(cl, cf, i) ==
    IF i > Len(AllOptions) THEN [conf |-> cf, log |-> <<>>]
    ELSE LET k == AllOptions[i]
         IN With(DupeLoop(cl, DupeRemove(cl, cf, k), i + 1),
                 LAMBDA rest : [conf |-> rest.conf,
                                log  |-> DupeRecords(cl, cf, k) \o rest.log])

\* QString::toDouble for the strings the model uses: whether the string
\* converts, whether the result is NaN, and the value in tenths of a second.
\* "nan" converts (ok is true) and gives NaN.
ToDouble(str) ==
    IF str = "0.3" THEN [ok |-> TRUE, nan |-> FALSE, val |-> 3]
    ELSE IF str = "0.5" THEN [ok |-> TRUE, nan |-> FALSE, val |-> 5]
    ELSE IF str = "2" THEN [ok |-> TRUE, nan |-> FALSE, val |-> 20]
    ELSE IF str = "5" THEN [ok |-> TRUE, nan |-> FALSE, val |-> 50]
    ELSE IF str = "9" THEN [ok |-> TRUE, nan |-> FALSE, val |-> 90]
    ELSE IF str = "30" THEN [ok |-> TRUE, nan |-> FALSE, val |-> 300]
    ELSE IF str = "31" THEN [ok |-> TRUE, nan |-> FALSE, val |-> 310]
    ELSE IF str = "nan" THEN [ok |-> TRUE, nan |-> TRUE, val |-> 0]
    ELSE [ok |-> FALSE, nan |-> FALSE, val |-> 0]

\* Options::minPollTimeSecs and maxPollTimeSecs, in tenths of a second
minPollTimeSecs == 5
maxPollTimeSecs == 300

\* the comparisons of doubles: every ordered comparison with NaN is false
DoubleLt(d, m) == ~d.nan /\ d.val < m

DoubleGt(d, m) == ~d.nan /\ d.val > m

\* The polltime check: the config value if (still) present, else the
\* parser's value; a BadArgs unless numeric and within the range.
PollTimeStr(cl, cf) == ConfValue(cf, "polltime", ParserValue(cl, "polltime"))

PollTimeBad(cl, cf) ==
    LET d == ToDouble(PollTimeStr(cl, cf)) IN
    DoubleLt(d, minPollTimeSecs) \/ ~d.ok \/ DoubleGt(d, maxPollTimeSecs)

\* The environment variable that may stand in for a required option.
EnvOf(k) ==
    IF k = "rpcuser" THEN "RPCUSER"
    ELSE IF k = "rpcpassword" THEN "RPCPASSWORD"
    ELSE "none"

EnvNames == {"RPCUSER", "RPCPASSWORD"}

EnvVar(ev, k) == IF EnvOf(k) = "none" THEN "null" ELSE ev[EnvOf(k)]

\* ReqOptsList, in order.
ReqOptsList == <<"datadir", "bitcoind", "rpcuser", "rpcpassword">>

\* the loop body without its test for a missing or empty option
ReqOptErrorNoMissing(cl, cf, ev, k) ==
    IF Len(ParserValues(cl, k)) > 1
      THEN "BadArgs: Option specified multiple times"
    ELSE IF Len(ConfValues(cf, k)) > 1
      THEN "BadArgs: This option cannot be specified multiple times in the config file"
    ELSE "none"

\* The exception the required-options loop throws for entry k, or "none".
ReqOptError(cl, cf, ev, k) ==
    LET cliIsSet == ParserIsSet(cl, k)
        confIsSet == ConfHasValue(cf, k)
    IN IF ((~cliIsSet /\ ~confIsSet) \/ ConfValue(cf, k, ParserValue(cl, k)) = "")
           /\ EnvVar(ev, k) = "null"
         THEN "BadArgs: Required option missing or empty"
       ELSE IF Len(ParserValues(cl, k)) > 1
         THEN "BadArgs: Option specified multiple times"
       ELSE IF Len(ConfValues(cf, k)) > 1
         THEN "BadArgs: This option cannot be specified multiple times in the config file"
       ELSE "none"

\* The warning the loop prints when the option is also in the environment.
ReqOptRecords(cl, cf, ev, k) ==
    IF (ParserIsSet(cl, k) \/ ConfHasValue(cf, k)) /\ EnvVar(ev, k) # "null"
      THEN <<[level |-> "Warning", what |-> "env-dupe", key |-> k]>>
      ELSE <<>>

RECURSIVE ReqLoop(_, _, _, _)
ReqLoop(cl, cf, ev, i) ==
    IF i > Len(ReqOptsList) THEN [err |-> "none", log |-> <<>>]
    ELSE LET k == ReqOptsList[i]
             e == ReqOptError(cl, cf, ev, k)
         IN IF e # "none" THEN [err |-> e, log |-> ReqOptRecords(cl, cf, ev, k)]
            ELSE LET rest == ReqLoop(cl, cf, ev, i + 1)
                 IN [err |-> rest.err, log |-> ReqOptRecords(cl, cf, ev, k) \o rest.log]

\* QString::split(":") for the endpoint strings the model uses; a string
\* without a colon is one token.
SplitTable ==
    ("1.1.1.1:1" :> <<"1.1.1.1", "1">>) @@
    ("2.2.2.2:2" :> <<"2.2.2.2", "2">>) @@
    ("1.2.3.4:8332" :> <<"1.2.3.4", "8332">>) @@
    ("node:8332" :> <<"node", "8332">>) @@
    ("0.0.0.0:50002" :> <<"0.0.0.0", "50002">>) @@
    ("0.0.0.0:50004" :> <<"0.0.0.0", "50004">>) @@
    ("1.2.3.4:8000" :> <<"1.2.3.4", "8000">>) @@
    ("1.2.3.4:0" :> <<"1.2.3.4", "0">>) @@
    ("1.2.3.4:65536" :> <<"1.2.3.4", "65536">>) @@
    ("::1:8000" :> <<"", "", "1", "8000">>) @@
    (":8000" :> <<"", "8000">>)

Split(s) == IF s \in DOMAIN SplitTable THEN SplitTable[s] ELSE <<s>>

\* QStringList::join(':')
RECURSIVE JoinColon(_)
JoinColon(toks) ==
    IF toks = <<>> THEN ""
    ELSE IF Len(toks) = 1 THEN toks[1]
    ELSE toks[1] \o ":" \o JoinColon(Tail(toks))

\* QString::toUShort for the numerals the model uses: ok is false for a
\* string that is not a number or does not fit 16 bits.
UShortTable ==
    ("0" :> 0) @@ ("1" :> 1) @@ ("2" :> 2) @@ ("8000" :> 8000) @@ ("8001" :> 8001) @@
    ("8332" :> 8332) @@ ("50002" :> 50002) @@ ("50004" :> 50004) @@ ("65535" :> 65535)

ToUShort(str) ==
    IF str \in DOMAIN UShortTable THEN [ok |-> TRUE, val |-> UShortTable[str]]
    ELSE [ok |-> FALSE, val |-> 0]

\* QHostAddress(hostStr): the strings that are addresses (isNull() is false).
HostAddresses == {"0.0.0.0", "127.0.0.1", "1.1.1.1", "2.2.2.2", "1.2.3.4", "::1"}

\* QHostAddress(QHostAddress::LocalHost).toString()
LocalHost == "127.0.0.1"

NoEndpoint == [host |-> "", port |-> 0]

\* parsePort: a BadArgs unless the string is a 16-bit number other than 0.
ParsePort(portStr) ==
    With(ToUShort(portStr), LAMBDA p :
        IF ~p.ok \/ p.val = 0 THEN [err |-> "BadArgs: Bad port", port |-> 0]
        ELSE [err |-> "none", port |-> p.val])

\* the pair of hostStr and the port parsePort gives, or parsePort's exception
HostPortPair(hostStr, portStr) ==
    With(ParsePort(portStr), LAMBDA p :
        IF p.err # "none" THEN [err |-> p.err, val |-> NoEndpoint]
        ELSE [err |-> "none", val |-> [host |-> hostStr, port |-> p.port]])

\* parseHostnamePortPair with the two tests on allowImplicitLoopback and the
\* token count exchanged for a test on the token count alone
BarePortEverywhere(s, allowImplicitLoopback) ==
    With(Split(s), LAMBDA toks :
        LET len     == Len(toks)
            hostStr == IF len < 2 THEN LocalHost ELSE JoinColon(SubSeq(toks, 1, len - 1))
        IN IF hostStr = ""
             THEN [err |-> "BadArgs: Malformed host:port spec", val |-> NoEndpoint]
           ELSE HostPortPair(hostStr, toks[len]))

\* parseHostnamePortPair: the host and port of "<host>:<port>"; a bare port
\* stands for the loopback address where allowImplicitLoopback is given.
ParseHostnamePortPair(s, allowImplicitLoopback) ==
    With(Split(s), LAMBDA toks :
        LET len == Len(toks) IN
        IF len < 2
          THEN IF allowImplicitLoopback /\ len = 1
                 THEN HostPortPair(LocalHost, toks[1])
                 ELSE [err |-> "BadArgs: Malformed host:port spec", val |-> NoEndpoint]
        ELSE With(JoinColon(SubSeq(toks, 1, len - 1)), LAMBDA hostStr :
                IF hostStr = ""
                  THEN [err |-> "BadArgs: Malformed host:port spec", val |-> NoEndpoint]
                ELSE HostPortPair(hostStr, toks[len])))

\* parseInterface: the pair, with a host that must be an address.
ParseInterface(s, allowImplicitLoopback) ==
    With(ParseHostnamePortPair(s, allowImplicitLoopback), LAMBDA pair :
        IF pair.err # "none" THEN pair
        ELSE IF pair.val.host \notin HostAddresses
          THEN [err |-> "BadArgs: Bad interface address", val |-> NoEndpoint]
        ELSE pair)

\* parseInterfaces: the list's interfaces in order, or the first exception.
RECURSIVE ParseInterfaces(_, _)
ParseInterfaces(l, supportsLoopbackImplicitly) ==
    IF l = <<>> THEN [err |-> "none", val |-> <<>>]
    ELSE With(ParseInterface(l[1], supportsLoopbackImplicitly), LAMBDA first :
            IF first.err # "none" THEN [err |-> first.err, val |-> <<>>]
            ELSE With(ParseInterfaces(Tail(l), supportsLoopbackImplicitly), LAMBDA rest :
                    IF rest.err # "none" THEN rest
                    ELSE [err |-> "none", val |-> <<first.val>> \o rest.val]))

\* QString::toInt for the strings the model uses: ok is false for a string
\* that is not a number, the empty string included.
IntTable ==
    ("-1" :> -1) @@ ("0" :> 0) @@ ("1" :> 1) @@ ("2" :> 2) @@ ("3" :> 3) @@ ("4" :> 4) @@
    ("5" :> 5)

ToInt(str) ==
    IF str \in DOMAIN IntTable THEN [ok |-> TRUE, val |-> IntTable[str]]
    ELSE [ok |-> FALSE, val |-> 0]

\* ConfigFile::intValue(key, def, &ok): the value's toInt, or def if the
\* value is not a number.
ConfIntValue(cf, k, def) ==
    With(ToInt(ConfValue(cf, k, "")), LAMBDA i :
        IF i.ok THEN i ELSE [ok |-> FALSE, val |-> def])

\* Options::maxBufferMin, maxBufferMax and the default of maxBuffer, scaled
\* down to small numbers that keep their order.
maxBufferMin == 2

maxBufferMax == 4

defaultMaxBuffer == 3

\* Options::isMaxBufferSettingInBounds and Options::clampMaxBufferSetting
isMaxBufferSettingInBounds(m) == m >= maxBufferMin /\ m <= maxBufferMax

clampMaxBufferSetting(m) ==
    IF m < maxBufferMin THEN maxBufferMin ELSE IF m > maxBufferMax THEN maxBufferMax ELSE m

\* Options::BdReqThrottleParams and its default, scaled down
DefaultThrottle == [hi |-> 2, lo |-> 1, decay |-> 1]

\* Options::BdReqThrottleParams::isValid: none negative, hi not below lo
ThrottleIsValid(p) == p.hi >= 0 /\ p.lo >= 0 /\ p.decay >= 0 /\ p.hi >= p.lo

\* Options as App::App leaves them before parseArgs: one default tcp
\* listener, nothing else.
NoCert == [cert |-> "", key |-> ""]

NoOptions ==
    [verboseDebug |-> FALSE, verboseTrace |-> FALSE,
     pollTimeSecs |-> 0, pollTimeNaN |-> FALSE,
     datadir |-> "", bitcoind |-> NoEndpoint, rpcuser |-> "", rpcpassword |-> "",
     interfaces |-> <<[host |-> "0.0.0.0", port |-> 50001]>>,
     wsInterfaces |-> <<>>, wssInterfaces |-> <<>>, sslInterfaces |-> <<>>,
     statsInterfaces |-> <<>>, adminInterfaces |-> <<>>, torProxy |-> NoEndpoint,
     certInfo |-> NoCert, wssCertInfo |-> NoCert,
     logTimestampMode |-> "Local",
     maxClientsPerIP |-> 0, maxBuffer |-> defaultMaxBuffer,
     torUser |-> "", torPass |-> "",
     bdReqThrottleParams |-> DefaultThrottle]

\* What parseArgs has done so far: the exception thrown ("none" while it
\* runs on), the Options, the records printed and the I/O performed.
ParseStart(dflt) ==
    [err |-> "none", options |-> [NoOptions EXCEPT !.verboseDebug = dflt],
     log |-> <<>>, io |-> <<>>]

Throw(st, e) == [st EXCEPT !.err = e]

\* the statements after a throw do not run
Then(st, Next(_)) == With(st, LAMBDA s : IF s.err # "none" THEN s ELSE Next(s))

\* The positional argument: the config file is opened and read, if given.
StOpenConf(cfile, st) ==
    IF cfile = "none" THEN st
    ELSE LET st1 == [st EXCEPT !.io = Append(@, "conf.open")] IN
         IF cfile = "unreadable" THEN Throw(st1, "BadArgs: Unable to open config file")
         ELSE st1

\* verboseDebug after the debug and quiet lines.
VerboseDebug(cl, cf, dflt) ==
    LET d == IF ParserIsSet(cl, "debug") \/ ConfBoolValue(cf, "debug") THEN TRUE ELSE dflt
    IN IF ParserIsSet(cl, "quiet") \/ ConfBoolValue(cf, "quiet") THEN FALSE ELSE d

\* the number of values of a config key that read as true
RECURSIVE CountTrue(_)
CountTrue(l) ==
    IF l = <<>> THEN 0 ELSE (IF BoolStr(l[1]) THEN 1 ELSE 0) + CountTrue(Tail(l))

\* the trace test on a count of one or more
TraceOnOnce(cl, cf) ==
    Len(cl["debug"]) >= 1 \/ CountTrue(ConfValues(cf, "debug")) >= 1

\* verboseTrace: -d more than once on the command line, else more than one
\* true value of debug in the config file.
VerboseTrace(cl, cf) ==
    IF Len(cl["debug"]) > 1 THEN TRUE
    ELSE CountTrue(ConfValues(cf, "debug")) > 1

StDebug(cl, cf, dflt, st) ==
    [st EXCEPT !.options.verboseDebug = VerboseDebug(cl, cf, dflt),
               !.options.verboseTrace = VerboseTrace(cl, cf)]

StPollTime(cl, cf, st) ==
    LET d   == ToDouble(PollTimeStr(cl, cf))
        st1 == [st EXCEPT !.options.pollTimeSecs = d.val, !.options.pollTimeNaN = d.nan]
    IN IF PollTimeBad(cl, cf) THEN Throw(st1, "BadArgs: polltime") ELSE st1

StRequired(cl, cf, ev, st) ==
    LET req == ReqLoop(cl, cf, ev, 1)
        st1 == [st EXCEPT !.log = @ \o req.log]
    IN IF req.err # "none" THEN Throw(st1, req.err) ELSE st1

\* datadir: looked up on the file system, and created if it is not there.
StDatadir(cl, cf, h, st) ==
    LET st1 == [st EXCEPT !.options.datadir = ConfValue(cf, "datadir", ParserValue(cl, "datadir")),
                          !.io = Append(@, "datadir.stat")]
    IN IF h.datadir = "file"
         THEN Throw(st1, "BadArgs: The specified path already exists but is not a directory")
       ELSE IF h.datadir = "dir" THEN st1
       ELSE [st1 EXCEPT !.io = Append(@, "datadir.mkpath")]

StBitcoind(cl, cf, st) ==
    LET b == ParseHostnamePortPair(ConfValue(cf, "bitcoind", ParserValue(cl, "bitcoind")), FALSE)
    IN IF b.err # "none" THEN Throw(st, b.err)
       ELSE [st EXCEPT !.options.bitcoind = b.val]

\* a char pointer read as a QString: a null pointer makes an empty string
EnvString(v) == IF v = "null" THEN "" ELSE v

\* rpcuser and rpcpassword: the config value, else the CLI value if set,
\* else the environment's.
RpcCred(cl, cf, ev, k) ==
    ConfValue(cf, k, IF ParserIsSet(cl, k) THEN ParserValue(cl, k)
                     ELSE EnvString(ev[EnvOf(k)]))

RpcUser(cl, cf, ev) == RpcCred(cl, cf, ev, "rpcuser")

StRpc(cl, cf, ev, st) ==
    [st EXCEPT !.options.rpcuser = RpcUser(cl, cf, ev),
               !.options.rpcpassword = RpcCred(cl, cf, ev, "rpcpassword")]

\* The strings of a listener option: the config's list if the key is there,
\* else the command line's.
ListenerList(cl, cf, k) == IF ConfHasValue(cf, k) THEN ConfValues(cf, k) ELSE cl[k]

\* The tcp listeners: a list that is not empty replaces the default.
StTcp(cl, cf, st) ==
    With(ListenerList(cl, cf, "tcp"), LAMBDA l :
        IF l = <<>> THEN st
        ELSE With(ParseInterfaces(l, FALSE), LAMBDA r :
                IF r.err # "none" THEN Throw(st, r.err)
                ELSE [st EXCEPT !.options.interfaces = r.val]))

\* The ws, wss and ssl listeners (field f of Options, option k): a list that
\* is not empty is parsed, and clears the tcp listeners if they are still
\* the default.
StListener(cl, cf, k, f, st) ==
    LET tcpIsDefault == ListenerList(cl, cf, "tcp") = <<>> IN
    With(ListenerList(cl, cf, k), LAMBDA l :
        IF l = <<>> THEN st
        ELSE With(ParseInterfaces(l, FALSE), LAMBDA r :
                IF r.err # "none" THEN Throw(st, r.err)
                ELSE [st EXCEPT !.options[f] = r.val,
                                !.options.interfaces = IF tcpIsDefault THEN <<>> ELSE @]))

StListeners(cl, cf, st) ==
    LET s1 == StTcp(cl, cf, st)
        s2 == Then(s1, LAMBDA s : StListener(cl, cf, "ws", "wsInterfaces", s))
        s3 == Then(s2, LAMBDA s : StListener(cl, cf, "wss", "wssInterfaces", s))
    IN Then(s3, LAMBDA s : StListener(cl, cf, "ssl", "sslInterfaces", s))

\* makeCertInfo: the two files are looked up and read.
MakeCertInfo(h, cert, key, st) ==
    LET st1 == [st EXCEPT !.io = Append(@, "cert.exists")] IN
    IF ~h.certFiles THEN Throw(st1, "BadArgs: Cert file not found")
    ELSE [st1 EXCEPT !.io = Append(@, "cert.read")]

\* the test that refuses a missing cert, without its hasSSL disjunct
CertMissingWssOnly(cert, wssCert, hasSSL) == cert = "" /\ wssCert = ""

\* The test that refuses a missing cert/key pair: always with an SSL
\* listener, and with WSS alone unless wss-cert stands in.
CertMissing(cert, wssCert, hasSSL) == cert = "" /\ (hasSSL \/ wssCert = "")

\* The test that refuses wss-cert when no WSS listener is there.
WssCertOrphan(wssCert, hasWSS) == wssCert # "" /\ ~hasWSS

\* the choice of the server certificate, never taking the wss pair
ServerCertNoSubstitute(cert, key, wssCert, wssKey) ==
    [cert |-> cert, key |-> key, wssCert |-> wssCert, wssKey |-> wssKey]

\* The pair that becomes certInfo and the pair left for wssCertInfo: with no
\* cert, the wss pair is moved over.
ServerCert(cert, key, wssCert, wssKey) ==
    IF cert = "" /\ wssCert # ""
      THEN [cert |-> wssCert, key |-> wssKey, wssCert |-> "", wssKey |-> ""]
      ELSE [cert |-> cert, key |-> key, wssCert |-> wssCert, wssKey |-> wssKey]

\* The cert and key options, looked at only if an SSL or WSS listener exists.
StCerts(cl, cf, h, st) ==
    LET hasSSL  == st.options.sslInterfaces # <<>>
        hasWSS  == st.options.wssInterfaces # <<>>
        cert    == ConfValue(cf, "cert", ParserValue(cl, "cert"))
        key     == ConfValue(cf, "key", ParserValue(cl, "key"))
        wssCert == ConfValue(cf, "wss-cert", ParserValue(cl, "wss-cert"))
        wssKey  == ConfValue(cf, "wss-key", ParserValue(cl, "wss-key"))
        sc      == ServerCert(cert, key, wssCert, wssKey)
    IN IF ~(hasSSL \/ hasWSS) THEN st
       ELSE IF ~h.ssl THEN Throw(st, "InternalError: SSL support is not compiled and/or linked")
       ELSE IF (cert = "") # (key = "")
         THEN Throw(st, "BadArgs: cert and key must both be specified")
       ELSE IF (wssCert = "") # (wssKey = "")
         THEN Throw(st, "BadArgs: wss-cert and wss-key must both be specified")
       ELSE IF CertMissing(cert, wssCert, hasSSL)
         THEN Throw(st, IF hasSSL
                THEN "BadArgs: SSL option requires both -c/--cert and -k/--key options be specified"
                ELSE "BadArgs: WSS option requires both -c/--cert and -k/--key options be specified")
       ELSE IF WssCertOrphan(wssCert, hasWSS)
         THEN Throw(st, "BadArgs: wss-cert option specified but no WSS listening ports defined")
       ELSE IF sc.cert = "" \/ sc.key = ""
         THEN Throw(st, "InternalError: cert and/or key is empty")
       ELSE LET s1 == MakeCertInfo(h, sc.cert, sc.key, st) IN
            IF s1.err # "none" THEN s1
            ELSE LET s2 == [s1 EXCEPT !.options.certInfo = [cert |-> sc.cert, key |-> sc.key]] IN
                 IF sc.wssCert = "" THEN s2
                 ELSE LET s3 == MakeCertInfo(h, sc.wssCert, sc.wssKey, s2) IN
                      IF s3.err # "none" THEN s3
                      ELSE [s3 EXCEPT !.options.wssCertInfo =
                                        [cert |-> sc.wssCert, key |-> sc.wssKey]]

\* The stats and admin listeners: a bare port is allowed.
StStatsAdmin(cl, cf, st) ==
    With(ParseInterfaces(ListenerList(cl, cf, "stats"), TRUE), LAMBDA z :
        IF z.err # "none" THEN Throw(st, z.err)
        ELSE With(ParseInterfaces(ListenerList(cl, cf, "admin"), TRUE), LAMBDA a :
                IF a.err # "none" THEN Throw(st, a.err)
                ELSE [st EXCEPT !.options.statsInterfaces = z.val,
                                !.options.adminInterfaces = a.val]))

\* tor_proxy, a key of the config file only: a bare port is allowed.
StTorProxy(cf, st) ==
    IF ~ConfHasValue(cf, "tor_proxy") THEN st
    ELSE With(ParseInterface(ConfValue(cf, "tor_proxy", ""), TRUE), LAMBDA t :
            IF t.err # "none" THEN Throw(st, t.err)
            ELSE [st EXCEPT !.options.torProxy = t.val])

\* max_clients_per_ip: the integer is stored as it is; only a value that is
\* not empty and not a number throws.
StMaxClientsPerIP(cf, st) ==
    IF ~ConfHasValue(cf, "max_clients_per_ip") THEN st
    ELSE With(ConfIntValue(cf, "max_clients_per_ip", 0), LAMBDA i :
            With([st EXCEPT !.options.maxClientsPerIP = i.val], LAMBDA st1 :
                IF ~i.ok /\ ConfValue(cf, "max_clients_per_ip", "") # ""
                  THEN Throw(st1, "BadArgs: max_clients_per_ip parse error")
                ELSE st1))

\* max_buffer: a number within the bounds, or an exception.
StMaxBuffer(cf, st) ==
    IF ~ConfHasValue(cf, "max_buffer") THEN st
    ELSE With(ConfIntValue(cf, "max_buffer", -1), LAMBDA mb :
            IF ~mb.ok \/ ~isMaxBufferSettingInBounds(mb.val)
              THEN Throw(st, "BadArgs: max_buffer: bad value")
            ELSE [st EXCEPT !.options.maxBuffer = mb.val])

\* tor_pass: the value is assigned to options->torUser.
StTorPass(cf, st) == [st EXCEPT !.options.torUser = ConfValue(cf, "tor_pass", "")]

\* tor_user, then tor_pass.
StTorUserPass(cf, st) ==
    With(IF ConfHasValue(cf, "tor_user")
           THEN [st EXCEPT !.options.torUser = ConfValue(cf, "tor_user", "")]
           ELSE st,
         LAMBDA st1 : IF ConfHasValue(cf, "tor_pass") THEN StTorPass(cf, st1) ELSE st1)

\* trimmed().simplified().split(QRegExp("\\W+"), skip empty parts) for the
\* strings the model uses: the runs of word characters (a minus sign is
\* not one).
ThrottleTokens ==
    ("2 1 1" :> <<"2", "1", "1">>) @@ ("1 0 0" :> <<"1", "0", "0">>) @@
    ("1 2 1" :> <<"1", "2", "1">>) @@ ("2 1" :> <<"2", "1">>) @@
    ("2 1 1 1" :> <<"2", "1", "1", "1">>) @@ ("2 x 1" :> <<"2", "x", "1">>) @@
    ("2 -1 1" :> <<"2", "1", "1">>) @@ ("" :> <<>>)

\* bitcoind_throttle: three numbers that make valid parameters, or an
\* exception.
StThrottle(cf, st) ==
    IF ~ConfHasValue(cf, "bitcoind_throttle") THEN st
    ELSE With(ThrottleTokens[ConfValue(cf, "bitcoind_throttle", "")], LAMBDA vals :
            IF /\ Len(vals) = 3
               /\ \A i \in 1..3 : ToInt(vals[i]).ok
               /\ ThrottleIsValid([hi |-> ToInt(vals[1]).val, lo |-> ToInt(vals[2]).val,
                                   decay |-> ToInt(vals[3]).val])
              THEN [st EXCEPT !.options.bdReqThrottleParams =
                        [hi |-> ToInt(vals[1]).val, lo |-> ToInt(vals[2]).val,
                         decay |-> ToInt(vals[3]).val]]
            ELSE Throw(st, "BadArgs: Failed to parse bitcoind_throttle"))

\* ts-format: the CLI value if not empty, else the config's.
TsFormatStr(cl, cf) ==
    IF ParserValue(cl, "ts-format") # "" THEN ParserValue(cl, "ts-format")
    ELSE ConfValue(cf, "ts-format", "")

\* The timestamp mode for a format string; "bad" for an unrecognized one.
TsMode(fmt) ==
    IF fmt = "" THEN "Local"
    ELSE IF fmt \in {"uptime", "abs", "abstime"} THEN "Uptime"
    ELSE IF fmt \in {"local", "localtime"} THEN "Local"
    ELSE IF fmt = "utc" THEN "UTC"
    ELSE IF fmt = "none" THEN "None"
    ELSE "bad"

StTsFormat(cl, cf, st) ==
    LET mode == TsMode(TsFormatStr(cl, cf)) IN
    IF mode = "bad" THEN Throw(st, "BadArgs: ts-format")
    ELSE [st EXCEPT !.options.logTimestampMode = mode]

\* The statements of parseArgs in order, each run only if none before it
\* threw.

\* App::parseArgs for a command line, a config file (cfile: none, ok or
\* unreadable, with contents cf0), an environment and a host: the exception
\* thrown (or "none"), the Options, the records printed and the I/O done.
ParseArgsResult(cl, cf0, ev, dflt, cfile, h) ==
    With(DupeLoop(cl, cf0, 1), LAMBDA dup :
        LET cf  == dup.conf
            s0  == StOpenConf(cfile, ParseStart(dflt))
            s1  == Then(s0, LAMBDA s :
                        StDebug(cl, cf, dflt, [s EXCEPT !.log = @ \o dup.log]))
            s2  == Then(s1, LAMBDA s : StPollTime(cl, cf, s))
            s3  == Then(s2, LAMBDA s : StRequired(cl, cf, ev, s))
            s4  == Then(s3, LAMBDA s : StDatadir(cl, cf, h, s))
            s5  == Then(s4, LAMBDA s : StBitcoind(cl, cf, s))
            s6  == Then(s5, LAMBDA s : StRpc(cl, cf, ev, s))
            s7  == Then(s6, LAMBDA s : StListeners(cl, cf, s))
            s8  == Then(s7, LAMBDA s : StCerts(cl, cf, h, s))
            s9  == Then(s8, LAMBDA s : StStatsAdmin(cl, cf, s))
            s10 == Then(s9, LAMBDA s : StMaxClientsPerIP(cf, s))
            s11 == Then(s10, LAMBDA s : StMaxBuffer(cf, s))
            s12 == Then(s11, LAMBDA s : StTorProxy(cf, s))
            s13 == Then(s12, LAMBDA s : StTorUserPass(cf, s))
            s14 == Then(s13, LAMBDA s : StThrottle(cf, s))
        IN Then(s14, LAMBDA s : StTsFormat(cl, cf, s)))

\* The values the model gives each option on the command line and in the
\* config file (a flag's value on the command line is the empty string).
CliChoices(k) ==
    IF k = "datadir" THEN {<<>>, <<"/d1">>}
    ELSE IF k = "tcp" THEN {<<>>, <<"1.1.1.1:1">>}
    ELSE IF k = "rpcuser" THEN {<<>>, <<"u1">>}
    ELSE IF k = "debug" THEN {<<>>, <<"">>}
    ELSE IF k = "polltime" THEN {<<>>, <<"5">>, <<"abc">>}
    ELSE {<<>>, <<"utc">>}

ConfChoices(k) ==
    IF k = "datadir" THEN {<<>>, <<"/d2">>}
    ELSE IF k = "tcp" THEN {<<>>, <<"2.2.2.2:2">>, <<"1.1.1.1:1", "2.2.2.2:2">>}
    ELSE IF k = "rpcuser" THEN {<<>>, <<"u2">>}
    ELSE IF k = "debug" THEN {<<>>, <<"true">>, <<"false">>}
    ELSE IF k = "polltime" THEN {<<>>, <<"9">>, <<"0.3">>}
    ELSE {<<>>, <<"none">>, <<"bogus">>}

NoValues == [k \in Keys |-> <<>>]

\* a command line that gives the four required options and nothing else
BaseCli ==
    [k \in Keys |->
        IF k = "datadir" THEN <<"/d1">>
        ELSE IF k = "bitcoind" THEN <<"1.2.3.4:8332">>
        ELSE IF k = "rpcuser" THEN <<"u1">>
        ELSE IF k = "rpcpassword" THEN <<"p1">>
        ELSE <<>>]

\* the values of six options, as cli and conf hold them, over the values of base
MkValues(base, d, t, u, g, p, f) ==
    [k \in Keys |->
        IF k = "datadir" THEN d
        ELSE IF k = "tcp" THEN t
        ELSE IF k = "rpcuser" THEN u
        ELSE IF k = "debug" THEN g
        ELSE IF k = "polltime" THEN p
        ELSE IF k = "ts-format" THEN f
        ELSE base[k]]

NoEnv == [v \in EnvNames |-> "null"]

\* a host with the data directory in place, readable cert and key files and
\* SSL support in Qt
BaseHost == [datadir |-> "dir", certFiles |-> TRUE, ssl |-> TRUE]

OptsInit ==
    /\ \E d \in CliChoices("datadir"), t \in CliChoices("tcp"),
          u \in CliChoices("rpcuser"), g \in CliChoices("debug"),
          p \in CliChoices("polltime"), f \in CliChoices("ts-format") :
            cli = MkValues(BaseCli, d, t, u, g, p, f)
    /\ confFile \in {"none", "ok"}
    /\ IF confFile = "none" THEN conf = NoValues
       ELSE \E d \in ConfChoices("datadir"), t \in ConfChoices("tcp"),
               u \in ConfChoices("rpcuser"), g \in ConfChoices("debug"),
               p \in ConfChoices("polltime"), f \in ConfChoices("ts-format") :
                 conf = MkValues(NoValues, d, t, u, g, p, f)
    /\ env \in {[NoEnv EXCEPT !["RPCUSER"] = v] : v \in {"null", "eu"}}
    /\ debugBuild \in BOOLEAN
    /\ host = BaseHost
    /\ parsePc = "start"
    /\ options = NoOptions
    /\ parseErr = "none"
    /\ parseLog = <<>>
    /\ parseIo = <<>>
    /\ exitStatus = -1
    /\ listening = FALSE

OptsIdle ==
    /\ cli = NoValues
    /\ confFile = "none"
    /\ conf = NoValues
    /\ env = NoEnv
    /\ debugBuild = FALSE
    /\ host = BaseHost
    /\ parsePc = "start"
    /\ options = NoOptions
    /\ parseErr = "none"
    /\ parseLog = <<>>
    /\ parseIo = <<>>
    /\ exitStatus = -1
    /\ listening = FALSE

\* App::App runs parseArgs once.
ParseArgs ==
    /\ parsePc = "start"
    /\ \E r \in {ParseArgsResult(cli, conf, env, debugBuild, confFile, host)} :
        /\ parsePc' = IF r.err = "none" THEN "done" ELSE "failed"
        /\ options' = r.options
        /\ parseErr' = r.err
        /\ parseLog' = r.log
        /\ parseIo' = r.io
    /\ UNCHANGED <<cli, conf, confFile, env, debugBuild, host, exitStatus, listening>>
    /\ UNCHANGED notOpts

NextOpts == ParseArgs

\* App::App, the catch block: the exception of parseArgs ends the process
\* with std::exit(1).
CtorCatch ==
    /\ parsePc = "failed"
    /\ parsePc' = "exited"
    /\ exitStatus' = 1
    /\ UNCHANGED <<cli, conf, confFile, env, debugBuild, host, options, parseErr,
                   parseLog, parseIo, listening>>
    /\ UNCHANGED notOpts

\* App::App returns and the event loop runs App::startup, which starts the
\* Controller: the listeners of Options are opened.
CtorStartup ==
    /\ parsePc = "done"
    /\ parsePc' = "running"
    /\ listening' = TRUE
    /\ UNCHANGED <<cli, conf, confFile, env, debugBuild, host, options, parseErr,
                   parseLog, parseIo, exitStatus>>
    /\ UNCHANGED notOpts

NextArgs ==
    \/ ParseArgs
    \/ CtorCatch
    \/ CtorStartup

----------------------------------------------------------------------------
(* The inputs of App::App drawn by SpecArgs: a valid command line, varied
   along one group of options at a time. *)

BaseInput ==
    [cli |-> BaseCli, conf |-> NoValues, confFile |-> "none", env |-> NoEnv,
     host |-> BaseHost, debugBuild |-> FALSE]

\* input inp with option k given the values v on the command line or in the
\* config file; no values leave inp as it is
Put(inp, src, k, v) ==
    IF v = <<>> THEN inp
    ELSE IF src = "cli" THEN [inp EXCEPT !.cli[k] = v]
    ELSE [inp EXCEPT !.conf[k] = v, !.confFile = "ok"]

\* input inp with option k given exactly the values c on the command line
\* and f in the config file
Give(inp, k, c, f) ==
    [inp EXCEPT !.cli[k] = c, !.conf[k] = f,
                !.confFile = IF f # <<>> THEN "ok" ELSE @]

\* the process starts on input inp
Input(inp) ==
    /\ cli = inp.cli
    /\ conf = inp.conf
    /\ confFile = inp.confFile
    /\ env = inp.env
    /\ host = inp.host
    /\ debugBuild = inp.debugBuild

\* polltime, on the command line and in the config file
PollInputs ==
    \E c \in {<<>>, <<"0.5">>, <<"30">>, <<"0.3">>, <<"31">>, <<"abc">>, <<"nan">>},
       f \in {<<>>, <<"9">>, <<"0.3">>, <<"abc">>, <<"nan">>},
       z \in {<<>>, <<"8001">>} :
        Input(Put(Give(BaseInput, "polltime", c, f), "cli", "stats", z))

\* an SSL listener with its cert and key, so that a successful resolution
\* reads the files
WithSsl(inp) ==
    Put(Put(Put(inp, "cli", "ssl", <<"0.0.0.0:50002">>), "cli", "cert", <<"c.pem">>),
        "cli", "key", <<"k.pem">>)

\* the required options in the three sources, with and without a data
\* directory in place and a valid polltime
ReqInputs ==
    \E dc \in {<<>>, <<"/d1">>, <<"/d1", "/d1">>}, df \in {<<>>, <<"/d2">>},
       bc \in {<<>>, <<"1.2.3.4:8332">>}, bf \in {<<>>, <<"node:8332">>},
       uc \in {<<>>, <<"">>, <<"u1">>}, uf \in {<<>>, <<"">>, <<"u2">>}, ue \in {"null", "eu"},
       pc \in {<<>>, <<"">>, <<"p1">>}, pf \in {<<>>, <<"p2">>}, pe \in {"null", "ep"},
       p \in {<<>>, <<"abc">>}, hd \in {"dir", "absent"} :
        Input([Give(Give(Give(Give(Put(WithSsl(BaseInput), "cli", "polltime", p),
                                   "datadir", dc, df), "bitcoind", bc, bf),
                              "rpcuser", uc, uf), "rpcpassword", pc, pf)
                 EXCEPT !.env = [RPCUSER |-> ue, RPCPASSWORD |-> pe], !.host.datadir = hd])

\* a config file that is empty or cannot be opened, with and without the
\* required datadir
ConfFileInputs ==
    \E dc \in {<<>>, <<"/d1">>}, c \in {"ok", "unreadable"}, hd \in {"dir", "absent", "file"} :
        Input([Give(BaseInput, "datadir", dc, <<>>) EXCEPT !.confFile = c, !.host.datadir = hd])

\* the secure listeners and the cert and key options
TlsInputs ==
    \E t \in {<<>>, <<"1.1.1.1:1">>},
       s \in {<<>>, <<"0.0.0.0:50002">>}, w \in {<<>>, <<"0.0.0.0:50004">>},
       c \in {<<>>, <<"c.pem">>}, k \in {<<>>, <<"k.pem">>},
       wc \in {<<>>, <<"wc.pem">>}, wk \in {<<>>, <<"wk.pem">>},
       src \in {"cli", "conf"}, hs \in BOOLEAN, hf \in BOOLEAN :
        Input([Put(Put(Put(Put(Put(Put(Put(BaseInput, "cli", "tcp", t), src, "ssl", s),
                                   src, "wss", w), src, "cert", c), src, "key", k),
                       src, "wss-cert", wc), src, "wss-key", wk)
                 EXCEPT !.host.ssl = hs, !.host.certFiles = hf])

\* the options that take an endpoint, and the strings the model gives them
EndpointOptions == {"tcp", "ssl", "ws", "wss", "bitcoind", "admin", "stats", "tor_proxy"}

EndpointChoices ==
    {<<>>, <<"8000">>, <<"65535">>, <<"0">>, <<"1.2.3.4:8000">>, <<"1.2.3.4:0">>,
     <<"1.2.3.4:65536">>, <<"::1:8000">>, <<":8000">>, <<"node:8332">>}

SourceOf(k) == IF k \in ConfOnlyKeys THEN "conf" ELSE "cli"

\* up to two of the endpoint options, each with one of the strings
EndpointInputs ==
    \E o1 \in EndpointOptions, o2 \in EndpointOptions,
       v1 \in EndpointChoices, v2 \in EndpointChoices :
        Input(Put(Put(Put(Put(BaseInput, "cli", "cert", <<"c.pem">>), "cli", "key", <<"k.pem">>),
                      SourceOf(o1), o1, v1), SourceOf(o2), o2, v2))

\* debug and quiet, on the command line and in the config file
DebugInputs ==
    \E dc \in {<<>>, <<"">>, <<"", "">>},
       df \in {<<>>, <<"true">>, <<"false">>, <<"true", "true">>, <<"true", "false">>,
               <<"false", "false">>},
       qc \in {<<>>, <<"">>}, qf \in {<<>>, <<"true">>, <<"false">>}, b \in BOOLEAN :
        Input([Give(Give(BaseInput, "debug", dc, df), "quiet", qc, qf) EXCEPT !.debugBuild = b])

\* the keys of the config file that set limits and the Tor credentials
LimitInputs ==
    \E mc \in {<<>>, <<"0">>, <<"3">>, <<"-1">>, <<"abc">>, <<"">>},
       mb \in {<<>>, <<"1">>, <<"2">>, <<"4">>, <<"5">>, <<"abc">>},
       tu \in {<<>>, <<"tu">>}, tp \in {<<>>, <<"tp">>},
       th \in {<<>>} \cup {<<t>> : t \in DOMAIN ThrottleTokens} :
        Input(Put(Put(Put(Put(Put(BaseInput, "conf", "max_clients_per_ip", mc),
                                  "conf", "max_buffer", mb), "conf", "tor_user", tu),
                      "conf", "tor_pass", tp), "conf", "bitcoind_throttle", th))

ArgsInputs ==
    \/ LimitInputs
    \/ PollInputs
    \/ ReqInputs
    \/ ConfFileInputs
    \/ TlsInputs
    \/ EndpointInputs
    \/ DebugInputs

ArgsInit ==
    /\ ArgsInputs
    /\ parsePc = "start"
    /\ options = NoOptions
    /\ parseErr = "none"
    /\ parseLog = <<>>
    /\ parseIo = <<>>
    /\ exitStatus = -1
    /\ listening = FALSE

----------------------------------------------------------------------------
(* Pluralize2 *)

\* the least value of an int
IntMin == -2147483647 - 1

\* the characters words are made of
Letters == {"s", "h", "y", "a"}

\* the words of at most n characters
RECURSIVE WordsUpTo(_)
WordsUpTo(n) ==
    IF n = 0 THEN {<<>>}
    ELSE LET shorter == WordsUpTo(n - 1) IN
         shorter \cup {Append(w, c) : w \in {v \in shorter : Len(v) = n - 1}, c \in Letters}

\* qAbs on int: the negation of the least int wraps to itself
QAbs(n) == IF n >= 0 THEN n ELSE IF n = IntMin THEN IntMin ELSE -n

\* QString::right(2)
Right2(word) == IF Len(word) <= 2 THEN word ELSE SubSeq(word, Len(word) - 1, Len(word))

EndsWithChar(w, c) == w # <<>> /\ w[Len(w)] = c

\* the test for the "es" ending, on a final s alone
EndsInS(wordend) == EndsWithChar(wordend, "s")

\* The test for the "es" ending: a final s, or the two characters sh.
EndsInSOrSh(wordend) == EndsWithChar(wordend, "s") \/ wordend = <<"s", "h">>

\* operator<<(QDebug, const Pluralize2 &): the number and the word written.
PluralizeOutput(n, wordIn) ==
    IF QAbs(n) # 1
      THEN LET wordend == Right2(wordIn) IN
           IF EndsInSOrSh(wordend) THEN [n |-> n, word |-> wordIn \o <<"e", "s">>]
           ELSE IF EndsWithChar(wordend, "y")
             THEN [n |-> n, word |-> SubSeq(wordIn, 1, Len(wordIn) - 1) \o <<"i", "e", "s">>]
           ELSE [n |-> n, word |-> wordIn \o <<"s">>]
      ELSE [n |-> n, word |-> wordIn]

NoOutput == [written |-> FALSE, n |-> 0, word |-> <<>>]

PlInit ==
    /\ plN \in (-MaxCount..MaxCount) \cup {IntMin}
    /\ plWord \in WordsUpTo(MaxWordLen)
    /\ plOut = NoOutput

PlIdle ==
    /\ plN = 0
    /\ plWord = <<>>
    /\ plOut = NoOutput

\* dbg << Pluralize2(n, word)
Pluralize ==
    /\ ~plOut.written
    /\ plOut' = LET o == PluralizeOutput(plN, plWord)
                IN [written |-> TRUE, n |-> o.n, word |-> o.word]
    /\ UNCHANGED <<plN, plWord>>
    /\ UNCHANGED notPl

NextPl == Pluralize

----------------------------------------------------------------------------
(* The stats HTTP endpoints *)

\* A QVariant tree: null, a number, a list of trees, or a map (its values in
\* items, under the keys k1, k2, ...).
JNull == [kind |-> "null", items |-> <<>>]

JNum == [kind |-> "num", items |-> <<>>]

JList(items) == [kind |-> "list", items |-> items]

JMap(items) == [kind |-> "map", items |-> items]

\* the decimal digits of a key's index
Digit(i) == IF i = 1 THEN "1" ELSE IF i = 2 THEN "2" ELSE IF i = 3 THEN "3" ELSE "4"

\* The JSON text of a tree.
RECURSIVE Ser(_)
RECURSIVE SerItems(_, _, _)
SerItems(items, i, keyed) ==
    IF i > Len(items) THEN ""
    ELSE (IF i > 1 THEN "," ELSE "")
         \o (IF keyed THEN "\"k" \o Digit(i) \o "\":" ELSE "")
         \o Ser(items[i]) \o SerItems(items, i + 1, keyed)

Ser(v) ==
    IF v.kind = "null" THEN "null"
    ELSE IF v.kind = "num" THEN "1"
    ELSE IF v.kind = "list" THEN "[" \o SerItems(v.items, 1, FALSE) \o "]"
    ELSE "{" \o SerItems(v.items, 1, TRUE) \o "}"

\* Json::toUtf8: the text of a list or a map; anything else is refused with
\* an exception.
JsonToUtf8(v) ==
    IF v.kind \in {"list", "map"} THEN [threw |-> FALSE, text |-> Ser(v)]
    ELSE [threw |-> TRUE, text |-> ""]

CRLF == "\r\n"

\* What Controller::statsSafe and debugSafe may return: null, or a tree with
\* a map or a list on top.
Snapshots ==
    {JNull, JMap(<<>>), JMap(<<JNum>>), JMap(<<JNum, JList(<<JNum>>)>>), JList(<<JNull>>)}

\* the handlers with the snapshot passed on as it is
StatsBodyNoWrap(stats) == stats

\* The handlers' second line: a null snapshot becomes the list [null].
StatsBody(stats) == IF stats.kind = "null" THEN JList(<<JNull>>) ELSE stats

\* The /stats and /debug handlers: the response for a snapshot. An exception
\* of Json::toUtf8 leaves the handler before the body is set.
EndpointResponse(path, stats) ==
    LET j == JsonToUtf8(StatsBody(stats)) IN
    [path |-> path, snapshot |-> stats, status |-> IF j.threw THEN "error" ELSE "ok",
     contentType |-> "application/json; charset=utf-8",
     data |-> IF j.threw THEN "" ELSE j.text \o CRLF]

\* the 404 message of a SimpleHttpServer before set404Message is called
Default404Message == "(the default 404 message)"

\* the argument of server->set404Message
The404Message ==
    "Error: Unknown endpoint. /stats & /debug are the only valid endpoint I understand.\r\n"

\* The response to a path without a handler: the 404 message.
NotFoundResponse(path) ==
    [path |-> path, snapshot |-> JNull, status |-> "notfound", contentType |-> "text/plain",
     data |-> msg404]

Paths == {"/stats", "/debug", "/unknown"}

WebInit ==
    /\ endpoints = {}
    /\ responses = <<>>
    /\ httpPc = "none"
    /\ msg404 = Default404Message

WebIdle == WebInit

\* server->tryStart() returns: the server's thread has bound its socket and
\* listens, so from here on it serves the requests that arrive.
TryStart ==
    /\ httpPc = "none"
    /\ httpPc' = "started"
    /\ UNCHANGED <<endpoints, responses, msg404>>
    /\ UNCHANGED notWeb

\* server->tryStart() throws: the server does not listen, and
\* start_httpServer is left.
TryStartThrows ==
    /\ httpPc = "none"
    /\ httpPc' = "failed"
    /\ UNCHANGED <<endpoints, responses, msg404>>
    /\ UNCHANGED notWeb

\* server->set404Message(...)
Set404Message ==
    /\ httpPc = "started"
    /\ httpPc' = "msg"
    /\ msg404' = The404Message
    /\ UNCHANGED <<endpoints, responses>>
    /\ UNCHANGED notWeb

\* server->addEndpoint(path, handler): the first call registers /stats, the
\* second /debug.
AddEndpoint(path, from, to) ==
    /\ httpPc = from
    /\ httpPc' = to
    /\ endpoints' = endpoints \cup {path}
    /\ UNCHANGED <<responses, msg404>>
    /\ UNCHANGED notWeb

AddStatsEndpoint == AddEndpoint("/stats", "msg", "stats")

AddDebugEndpoint == AddEndpoint("/debug", "stats", "done")

\* App::start_httpServer, statement by statement
StartHttpServer ==
    \/ TryStart
    \/ TryStartThrows
    \/ Set404Message
    \/ AddStatsEndpoint
    \/ AddDebugEndpoint

\* the server's thread accepts requests: tryStart has returned
Serving == httpPc \in {"started", "msg", "stats", "done"}

\* A GET on the running server, handled in the server's thread: the handler
\* registered for the path runs on the snapshot the Controller returns; a
\* path without a handler gets the 404 message.
HttpGet ==
    /\ Serving
    /\ Len(responses) < MaxRequests
    /\ \E path \in Paths, stats \in Snapshots :
        responses' = Append(responses,
                            IF path \in endpoints THEN EndpointResponse(path, stats)
                            ELSE NotFoundResponse(path))
    /\ UNCHANGED <<endpoints, httpPc, msg404>>
    /\ UNCHANGED notWeb

NextWeb ==
    \/ StartHttpServer
    \/ HttpGet

----------------------------------------------------------------------------
(* Specifications *)

----------------------------------------------------------------------------
(* The slots that change Options while the server runs *)

NoReq == [kind |-> "none", b |-> FALSE, m |-> 0, p |-> DefaultThrottle, warned |-> FALSE]

RunIdle == lastReq = NoReq

\* the call of a slot: its kind and arguments, and whether it printed a warning
Req(kind, b, m, p, warned) ==
    [kind |-> kind, b |-> b, m |-> m, p |-> p, warned |-> warned]

\* App::on_setVerboseDebug
OnSetVerboseDebug(b) ==
    /\ parsePc = "running"
    /\ options' = [options EXCEPT !.verboseDebug = b,
                                  !.verboseTrace = IF ~b THEN FALSE ELSE @]
    /\ lastReq' = Req("debug", b, 0, DefaultThrottle, FALSE)
    /\ UNCHANGED notRun

\* App::on_setVerboseTrace
OnSetVerboseTrace(b) ==
    /\ parsePc = "running"
    /\ options' = [options EXCEPT !.verboseTrace = b,
                                  !.verboseDebug = IF b THEN TRUE ELSE @]
    /\ lastReq' = Req("trace", b, 0, DefaultThrottle, FALSE)
    /\ UNCHANGED notRun

\* the new max_buffer stored whatever it is
MaxBufferChangeStoresAlways(m) == TRUE

\* on_requestMaxBufferChange's test: the new setting is stored only if it is
\* in bounds.
MaxBufferChangeStores(m) == isMaxBufferSettingInBounds(m)

\* App::on_requestMaxBufferChange
OnRequestMaxBufferChange(m) ==
    /\ parsePc = "running"
    /\ IF MaxBufferChangeStores(m)
         THEN /\ options' = [options EXCEPT !.maxBuffer = clampMaxBufferSetting(m)]
              /\ lastReq' = Req("maxBuffer", FALSE, m, DefaultThrottle, FALSE)
         ELSE /\ options' = options
              /\ lastReq' = Req("maxBuffer", FALSE, m, DefaultThrottle, TRUE)
    /\ UNCHANGED notRun

\* App::on_bitcoindThrottleParamsChange
OnBitcoindThrottleParamsChange(hi, lo, decay) ==
    /\ parsePc = "running"
    /\ LET p == [hi |-> hi, lo |-> lo, decay |-> decay] IN
       IF ThrottleIsValid(p)
         THEN /\ options' = [options EXCEPT !.bdReqThrottleParams = p]
              /\ lastReq' = Req("throttle", FALSE, 0, p, FALSE)
         ELSE /\ options' = options
              /\ lastReq' = Req("throttle", FALSE, 0, p, TRUE)
    /\ UNCHANGED notRun

\* the arguments the model gives the slots: every max_buffer from one below
\* the bounds to one above, and throttle numbers from -1 to 1
MaxBufferArgs == (maxBufferMin - 1)..(maxBufferMax + 1)

ThrottleArgs == -1..1

SetVerboseDebug == \E b \in BOOLEAN : OnSetVerboseDebug(b)

SetVerboseTrace == \E b \in BOOLEAN : OnSetVerboseTrace(b)

RequestMaxBufferChange == \E m \in MaxBufferArgs : OnRequestMaxBufferChange(m)

BitcoindThrottleParamsChange ==
    \E hi \in ThrottleArgs, lo \in ThrottleArgs, decay \in ThrottleArgs :
        OnBitcoindThrottleParamsChange(hi, lo, decay)

\* the inputs of a process whose Options are then changed at run time: debug
\* and quiet, max_buffer and bitcoind_throttle
RunInputs ==
    \/ \E dc \in {<<>>, <<"">>, <<"", "">>}, df \in {<<>>, <<"true", "true">>},
          qc \in {<<>>, <<"">>} :
            Input(Give(Give(BaseInput, "debug", dc, df), "quiet", qc, <<>>))
    \/ \E mb \in {<<>>, <<"2">>, <<"5">>},
          th \in {<<>>, <<"1 0 0">>, <<"1 2 1">>} :
            Input(Put(Put(BaseInput, "conf", "max_buffer", mb),
                      "conf", "bitcoind_throttle", th))

RunInit ==
    /\ RunInputs
    /\ parsePc = "start"
    /\ options = NoOptions
    /\ parseErr = "none"
    /\ parseLog = <<>>
    /\ parseIo = <<>>
    /\ exitStatus = -1
    /\ listening = FALSE

NextRun ==
    \/ ParseArgs
    \/ CtorCatch
    \/ CtorStartup
    \/ SetVerboseDebug
    \/ SetVerboseTrace
    \/ RequestMaxBufferChange
    \/ BitcoindThrottleParamsChange

InitApp == AppInit /\ CallIdle /\ LogIdle /\ OptsIdle /\ PlIdle /\ WebIdle /\ ThrIdle /\ RunIdle

SpecApp == InitApp /\ [][NextApp]_vars

InitCall == AppIdle /\ CallInit /\ LogIdle /\ OptsIdle /\ PlIdle /\ WebIdle /\ ThrIdle /\ RunIdle

SpecCall == InitCall /\ [][NextCall]_vars

InitLog == AppIdle /\ CallIdle /\ LogInit /\ OptsIdle /\ PlIdle /\ WebIdle /\ ThrIdle /\ RunIdle

SpecLog == InitLog /\ [][NextLog]_vars

InitOpts == AppIdle /\ CallIdle /\ LogIdle /\ OptsInit /\ PlIdle /\ WebIdle /\ ThrIdle /\ RunIdle

SpecOpts == InitOpts /\ [][NextOpts]_vars

InitArgs == AppIdle /\ CallIdle /\ LogIdle /\ ArgsInit /\ PlIdle /\ WebIdle /\ ThrIdle /\ RunIdle

SpecArgs == InitArgs /\ [][NextArgs]_vars

InitPl == AppIdle /\ CallIdle /\ LogIdle /\ OptsIdle /\ PlInit /\ WebIdle /\ ThrIdle /\ RunIdle

SpecPl == InitPl /\ [][NextPl]_vars

InitWeb == AppIdle /\ CallIdle /\ LogIdle /\ OptsIdle /\ PlIdle /\ WebInit /\ ThrIdle /\ RunIdle

SpecWeb == InitWeb /\ [][NextWeb]_vars

InitRit == AppIdle /\ CallIdle /\ LogIdle /\ OptsIdle /\ PlIdle /\ WebIdle /\ ThrInit /\ RunIdle

SpecRit == InitRit /\ [][NextRit]_vars

\* Every thread that can take a step takes it in the end: the constructor
\* goes on to insert and start, a started thread is scheduled, and after the
\* work function has returned run() goes on to emit and to done(). Nothing
\* is assumed of the work function itself.
FairRit ==
    \A r \in Rits :
        /\ WF_vars(RitCtorInsert(r))
        /\ WF_vars(RitStart(r))
        /\ WF_vars(RitEmit(r))
        /\ WF_vars(RitDone(r))

SpecRitLive == SpecRit /\ FairRit

InitRun ==
    AppIdle /\ CallIdle /\ LogIdle /\ RunInit /\ PlIdle /\ WebIdle /\ ThrIdle /\ RunIdle

SpecRun == InitRun /\ [][NextRun]_vars

----------------------------------------------------------------------------
(* Properties of signal handling and shutdown *)

\* C1: whatever the number and mix of termination signals delivered, the
\* first delivery (and only it) calls app()->exit, with that signal as the
\* exit code; the second to fourth deliveries each print one duplicate line
\* and do nothing else; the fifth delivery aborts the process.
C1_SignalHandling ==
    /\ exitCalls = (IF delivered = 0 THEN 0 ELSE 1)
    /\ (delivered >= 1 => exitCode = firstSig)
    /\ dupMsgs = (IF delivered <= 1 THEN 0
                  ELSE IF delivered <= 4 THEN delivered - 1 ELSE 3)
    /\ (aborted <=> delivered >= 5)
    /\ delivered <= 5

C1_Witness ==
    /\ delivered = 5 /\ aborted
    /\ firstSig = SIGTERM /\ exitCode = SIGTERM
    /\ exitCalls = 1 /\ dupMsgs = 3

\* C2: once a termination signal has been delivered, every RunInThread
\* constructed from then on finds blockNew set and is refused: its thread
\* is not started and it does not enter extant.
C2_NoNewTaskAfterSignal ==
    [][(delivered >= 1 /\ ritMade' > ritMade)
         => (blockNew /\ ritMade' \in ritRefused' /\ extant' = extant)]_vars

C4_LoggedIsRemaining ==
    poolRes = "timedout" => loggedJobs = atTimeout

----------------------------------------------------------------------------
(* Properties of Util::LambdaOnObject *)

\* a call made from another thread than the target's, with a job
CrossCall(c) == call[c].pc # "idle" /\ call[c].caller = "other" /\ ~call[c].isNull

C7_SameThreadInline ==
    \A c \in Calls :
        (call[c].pc # "idle" /\ call[c].caller = "owner" /\ ~call[c].isNull) =>
            /\ call[c].pc = "returned" /\ call[c].res = "true"
            /\ call[c].started = 1 /\ call[c].done = 1
            /\ ~call[c].enq /\ ~call[c].waited /\ call[c].fpc = "none"
            /\ \A i \in 1..Len(queue) : queue[i] # c

C7_Witness ==
    \E c, d \in Calls :
        /\ call[c].caller = "owner" /\ ~call[c].isNull /\ call[c].tmo = "zero"
        /\ call[c].pc = "returned" /\ call[c].res = "true" /\ call[c].started = 1
        /\ call[d].caller = "owner" /\ ~call[d].isNull /\ call[d].tmo = "forever"
        /\ call[d].pc = "returned" /\ call[d].res = "true" /\ call[d].started = 1

\* C8: a cross-thread call with a job, made while the target's thread is
\* not running, has returned false without waiting; its job was not posted
\* and is never executed, also after the thread starts later.
C8_NotRunningReturnsFalse ==
    \A c \in Calls :
        (CrossCall(c) /\ ~call[c].runAtSubmit) =>
            /\ call[c].pc = "returned" /\ call[c].res = "false"
            /\ ~call[c].enq /\ ~call[c].waited
            /\ call[c].started = 0 /\ call[c].fpc = "none"
            /\ \A i \in 1..Len(queue) : queue[i] # c

C8_Witness ==
    \E c, d \in Calls :
        /\ CrossCall(c) /\ ~call[c].runAtSubmit
        /\ call[c].pc = "returned" /\ call[c].res = "false" /\ call[c].started = 0
        /\ CrossCall(d) /\ call[d].runAtSubmit /\ call[d].done = 1

----------------------------------------------------------------------------
(* Properties of log timestamps *)

----------------------------------------------------------------------------
(* Properties of option resolution *)

\* the option is given both on the command line and in the config file
SetInBoth(k) == cli[k] # <<>> /\ conf[k] # <<>>

\* the last value the command line gives the option
CliValue(k) == cli[k][Len(cli[k])]

----------------------------------------------------------------------------
(* Properties of App::App: option validation *)

\* the exceptions of class BadArgs that parseArgs throws
BadArgsErrors ==
    {"BadArgs: Unable to open config file", "BadArgs: polltime",
     "BadArgs: Required option missing or empty",
     "BadArgs: Option specified multiple times",
     "BadArgs: This option cannot be specified multiple times in the config file",
     "BadArgs: The specified path already exists but is not a directory",
     "BadArgs: Bad port", "BadArgs: Malformed host:port spec",
     "BadArgs: Bad interface address", "BadArgs: Cert file not found",
     "BadArgs: cert and key must both be specified",
     "BadArgs: wss-cert and wss-key must both be specified",
     "BadArgs: SSL option requires both -c/--cert and -k/--key options be specified",
     "BadArgs: WSS option requires both -c/--cert and -k/--key options be specified",
     "BadArgs: wss-cert option specified but no WSS listening ports defined",
     "BadArgs: max_clients_per_ip parse error", "BadArgs: max_buffer: bad value",
     "BadArgs: Failed to parse bitcoind_throttle",
     "BadArgs: ts-format"}

\* parseArgs returned
Resolved == parsePc \in {"done", "running"}

\* parseArgs threw
Failed == parsePc \in {"failed", "exited"}

\* the polltime string in force: the command line's, else the config
\* file's, else the default
PollTimeGiven ==
    IF cli["polltime"] # <<>> THEN cli["polltime"][Len(cli["polltime"])]
    ELSE IF conf["polltime"] # <<>> THEN conf["polltime"][1]
    ELSE "2"

\* the string is a number within [0.5, 30.0]
PollTimeValid(str) ==
    LET d == ToDouble(str) IN
    d.ok /\ ~d.nan /\ d.val >= minPollTimeSecs /\ d.val <= maxPollTimeSecs

\* C11: after successful option resolution the poll interval is a number in
\* [0.5, 30.0]; a polltime that is not such a number makes resolution fail
\* with a BadArgs, the process exit with code 1, and no listener open.
C11_PollTimeInRange ==
    /\ Resolved =>
        /\ ~options.pollTimeNaN
        /\ options.pollTimeSecs >= minPollTimeSecs
        /\ options.pollTimeSecs <= maxPollTimeSecs
    /\ (parsePc # "start" /\ ~PollTimeValid(PollTimeGiven)) =>
        /\ Failed
        /\ parseErr \in BadArgsErrors
        /\ ~listening
        /\ parsePc = "exited" => exitStatus = 1

\* the required option k is in none of the command line, the config file
\* and the environment
Missing(k) ==
    /\ cli[k] = <<>>
    /\ conf[k] = <<>>
    /\ EnvOf(k) # "none" => env[EnvOf(k)] = "null"

SomeMissing == \E i \in 1..Len(ReqOptsList) : Missing(ReqOptsList[i])

\* the I/O parseArgs did on the data directory and on cert and key files
FileIo == {i \in 1..Len(parseIo) : parseIo[i] # "conf.open"}

\* the checks that parseArgs makes before it looks for a missing required
\* option find nothing: the config file opens, polltime is valid, and no
\* required option is given more than once
EarlierChecksPass ==
    /\ confFile # "unreadable"
    /\ PollTimeValid(PollTimeGiven)
    /\ \A i \in 1..Len(ReqOptsList) :
          Len(cli[ReqOptsList[i]]) <= 1 /\ Len(conf[ReqOptsList[i]]) <= 1

C13_CredentialsNonEmpty ==
    Resolved => options.rpcuser # "" /\ options.rpcpassword # ""

\* option k is given, on the command line or in the config file
IsGiven(k) == cli[k] # <<>> \/ conf[k] # <<>>

\* the exceptions of the statements of parseArgs that come before the cert
\* and key validation
BeforeCertsErrors ==
    {"BadArgs: Unable to open config file", "BadArgs: polltime",
     "BadArgs: Required option missing or empty",
     "BadArgs: Option specified multiple times",
     "BadArgs: This option cannot be specified multiple times in the config file",
     "BadArgs: The specified path already exists but is not a directory",
     "BadArgs: Bad port", "BadArgs: Malformed host:port spec",
     "BadArgs: Bad interface address"}

\* parseArgs has run and no statement before the cert and key validation threw
AtCerts == parsePc # "start" /\ parseErr \notin BeforeCertsErrors

\* wss-cert and wss-key are both given or both left out
WssPairWhole == IsGiven("wss-cert") <=> IsGiven("wss-key")

C15_WssCertNeedsPairAndWss ==
    (AtCerts /\ host.ssl
        /\ \/ ~WssPairWhole
           \/ (IsGiven("wss-cert") \/ IsGiven("wss-key")) /\ ~IsGiven("wss")) =>
        /\ Failed
        /\ parseErr \in BadArgsErrors

\* WSS listeners, no SSL listener, the wss-cert/wss-key pair and neither
\* cert nor key
WssOnlyWithWssPair ==
    /\ IsGiven("wss") /\ ~IsGiven("ssl")
    /\ IsGiven("wss-cert") /\ IsGiven("wss-key")
    /\ ~IsGiven("cert") /\ ~IsGiven("key")

\* the value of option k that is in force: the command line's, else the
\* config file's
GivenValue(k) == IF cli[k] # <<>> THEN cli[k][Len(cli[k])] ELSE conf[k][1]

\* C16: with WSS listeners, no SSL listener and only the wss-cert/wss-key
\* pair given, resolution accepts the configuration, the pair becomes the
\* server certificate (certInfo) and no WSS-specific certificate
\* (wssCertInfo) is set (on a Qt with SSL support and with readable files).
C16_WssPairSubstitutes ==
    (AtCerts /\ host.ssl /\ host.certFiles /\ WssOnlyWithWssPair) =>
        /\ Resolved
        /\ options.certInfo = [cert |-> GivenValue("wss-cert"), key |-> GivenValue("wss-key")]
        /\ options.wssCertInfo = NoCert

\* the server runs with the wss pair as its certificate
C16_Witness ==
    /\ parsePc = "running" /\ listening
    /\ WssOnlyWithWssPair
    /\ options.wssInterfaces # <<>> /\ options.sslInterfaces = <<>>
    /\ options.certInfo = [cert |-> "wc.pem", key |-> "wk.pem"]
    /\ options.wssCertInfo = NoCert

\* the options that take a bare port, and those that do not
LoopbackOptions == {"admin", "stats", "tor_proxy"}

StrictOptions == {"tcp", "ssl", "ws", "wss", "bitcoind"}

\* the strings of the model that are a bare port, with their number, and
\* the strings without a colon
BarePorts == ("8000" :> 8000) @@ ("65535" :> 65535)

BareStrings == {"8000", "65535", "0"}

\* the strings option k is given, where it is read from
GivenStrings(k) ==
    LET l == IF cli[k] # <<>> THEN cli[k] ELSE conf[k] IN {l[i] : i \in 1..Len(l)}

\* the endpoints that Options holds for option k
Endpoints(k) ==
    LET l == IF k = "tcp" THEN options.interfaces
             ELSE IF k = "ssl" THEN options.sslInterfaces
             ELSE IF k = "ws" THEN options.wsInterfaces
             ELSE IF k = "wss" THEN options.wssInterfaces
             ELSE IF k = "admin" THEN options.adminInterfaces
             ELSE IF k = "stats" THEN options.statsInterfaces
             ELSE IF k = "bitcoind" THEN <<options.bitcoind>>
             ELSE IF IsGiven("tor_proxy") THEN <<options.torProxy>> ELSE <<>>
    IN {l[i] : i \in 1..Len(l)}

EndpointErrors ==
    {"BadArgs: Bad port", "BadArgs: Malformed host:port spec", "BadArgs: Bad interface address"}

\* C17: a bare port is accepted only for admin, stats and tor_proxy, where
\* it resolves to 127.0.0.1:<port>; for tcp, ssl, ws, wss and bitcoind it
\* makes resolution fail with a BadArgs; the port of every accepted endpoint
\* is in 1..65535.
C17_BarePortOnlyLoopback ==
    /\ (parsePc # "start"
            /\ \E k \in StrictOptions : GivenStrings(k) \cap BareStrings # {}) =>
          Failed /\ parseErr \in BadArgsErrors
    /\ (parsePc # "start"
            /\ \A k \in EndpointOptions \ {"bitcoind"} :
                  GivenStrings(k) \subseteq
                      (IF k \in LoopbackOptions THEN DOMAIN BarePorts ELSE {})
            /\ GivenStrings("bitcoind") \subseteq {"1.2.3.4:8332"}) =>
          parseErr \notin EndpointErrors
    /\ Resolved =>
          /\ \A k \in LoopbackOptions : \A str \in GivenStrings(k) \cap BareStrings :
                /\ str \in DOMAIN BarePorts
                /\ [host |-> "127.0.0.1", port |-> BarePorts[str]] \in Endpoints(k)
          /\ \A k \in EndpointOptions : \A e \in Endpoints(k) :
                e.port >= 1 /\ e.port <= 65535

\* the server runs with admin and stats given as bare ports
C17_Witness ==
    /\ parsePc = "running"
    /\ cli["admin"] = <<"8000">> /\ cli["stats"] = <<"65535">>
    /\ options.adminInterfaces = <<[host |-> "127.0.0.1", port |-> 8000]>>
    /\ options.statsInterfaces = <<[host |-> "127.0.0.1", port |-> 65535]>>

\* how many times debug is given where it is read from: the occurrences on
\* the command line, else the true values in the config file
DebugGiven ==
    IF cli["debug"] # <<>> THEN Len(cli["debug"])
    ELSE Cardinality({i \in 1..Len(conf["debug"]) :
                        conf["debug"][i] \in {"1", "yes", "true", "on", ""}})

\* quiet is given: -q on the command line, else a true quiet in the config file
QuietGiven ==
    IF cli["quiet"] # <<>> THEN TRUE
    ELSE conf["quiet"] # <<>> /\ conf["quiet"][1] \in {"1", "yes", "true", "on", ""}

----------------------------------------------------------------------------
(* Properties of Pluralize2 *)

\* the word w ends with the characters of e
EndsIn(w, e) == Len(w) >= Len(e) /\ SubSeq(w, Len(w) - Len(e) + 1, Len(w)) = e

\* C19: for |n| = 1 the word written is the input word; for every other n
\* it is the word with "es" appended if it ends in "s" or "sh", with its
\* final "y" replaced by "ies" if it ends in "y", and with "s" appended
\* otherwise.
C19_Pluralization ==
    plOut.written =>
        plOut.word =
            IF plN = 1 \/ plN = -1 THEN plWord
            ELSE IF EndsIn(plWord, <<"s">>) \/ EndsIn(plWord, <<"s", "h">>)
              THEN plWord \o <<"e", "s">>
            ELSE IF EndsIn(plWord, <<"y">>)
              THEN SubSeq(plWord, 1, Len(plWord) - 1) \o <<"i", "e", "s">>
            ELSE plWord \o <<"s">>

\* "ash" written for 2 as "ashes"
C19_Witness ==
    /\ plOut.written /\ plN = 2 /\ plWord = <<"a", "s", "h">>
    /\ plOut.word = <<"a", "s", "h", "e", "s">>

----------------------------------------------------------------------------
(* Properties of the stats HTTP endpoints *)

\* the values of a JSON document below its top: null, a number, or a list
\* or a map of at most two of those
JsonLeaves == {JNull, JNum}

SeqsUpTo2(S) == {<<>>} \cup {<<a>> : a \in S} \cup {<<a, b>> : a \in S, b \in S}

JsonValues ==
    JsonLeaves \cup {JList(l) : l \in SeqsUpTo2(JsonLeaves)}
               \cup {JMap(l) : l \in SeqsUpTo2(JsonLeaves)}

\* the bodies that are a JSON array or object followed by CRLF
WellFormedBodies ==
    {Ser(JList(l)) \o "\r\n" : l \in SeqsUpTo2(JsonValues)}
        \cup {Ser(JMap(l)) \o "\r\n" : l \in SeqsUpTo2(JsonValues)}

\* C20: every response of the /stats and /debug handlers has content type
\* application/json; charset=utf-8 and a body that is well-formed JSON, not
\* null, followed by CRLF; for a null snapshot the body is the array [null].
C20_StatsAlwaysJson ==
    \A i \in 1..Len(responses) :
        responses[i].path \in {"/stats", "/debug"} /\ responses[i].status # "notfound" =>
            /\ responses[i].contentType = "application/json; charset=utf-8"
            /\ responses[i].data \in WellFormedBodies
            /\ responses[i].data # "null\r\n"
            /\ responses[i].snapshot = JNull => responses[i].data = "[null]\r\n"

\* /stats answered on a null snapshot and /debug on a map
C20_Witness ==
    /\ Len(responses) = 2
    /\ responses[1].path = "/stats" /\ responses[1].snapshot = JNull
    /\ responses[1].data = "[null]\r\n"
    /\ responses[2].path = "/debug" /\ responses[2].snapshot = JMap(<<JNum>>)
    /\ responses[2].data = "{\"k1\":1}\r\n"

\* C27: once the stats server accepts requests, a GET of /stats or /debug is
\* answered by its handler, never by the unknown-endpoint (404) response.
C27_EndpointsBeforeServing ==
    \A i \in 1..Len(responses) :
        responses[i].path \in {"/stats", "/debug"} => responses[i].status # "notfound"

----------------------------------------------------------------------------
(* Properties of Util::LambdaOnObject: how often the job runs *)

\* C26: no call's job starts more than once, and once the caller has
\* returned the job is not started any more: a posted functor delivered after
\* the return finds the shared state gone and runs nothing.
C26_AtMostOnceNeverLate ==
    [][\A c \in Calls :
          /\ call'[c].started <= 1
          /\ (call[c].pc = "returned" => call'[c].started = call[c].started)]_vars

\* a call that timed out before its functor was delivered; the functor was
\* delivered afterwards and skipped the job
C26_Witness ==
    \E c \in Calls :
        /\ call[c].pc = "returned" /\ call[c].res = "false" /\ call[c].enq
        /\ call[c].fpc = "skipped" /\ call[c].started = 0

----------------------------------------------------------------------------
(* Properties of Util::RunInThread *)

\* C23: when waitForAll returns true, extant is empty at that moment; when
\* it returns false and was given a count pointer, the count it reported is
\* the number of threads extant at that moment.
C23_WaitForAllResult ==
    waiter.pc = "returned" =>
        /\ (waiter.res = "true" => waiter.atReturn = {})
        /\ (waiter.res = "false" /\ waiter.hasNum =>
                waiter.num = Cardinality(waiter.atReturn))

\* the positions of a started RunInThread from the insertion into extant
\* (before start()) to the emission of onCompletion (before done())
RitLive == {"inserted", "working", "worked", "emitted"}

\* a removal that leaves extant empty
LastRemoval == extant # {} /\ extant' = {}

\* C24: a RunInThread is in extant from its insertion, before start(), until
\* its work function has returned and onCompletion was emitted; once its work
\* function has returned it ends up removed from extant; cond.wakeAll() is
\* called, and a waiter inside cond.wait woken, exactly by the removals that
\* leave extant empty.
C24_ExtantLifetime ==
    /\ [](\A r \in Rits : rit[r].pc \in RitLive => r \in extant)
    /\ \A r \in Rits : (rit[r].pc = "worked") ~> (rit[r].pc = "finished" /\ r \notin extant)
    /\ [][/\ (wakeAlls' # wakeAlls) <=> LastRemoval
          /\ (waiter.pc # "woken" /\ waiter'.pc = "woken") => LastRemoval
          /\ (waiter.pc = "waiting" /\ LastRemoval) => waiter'.pc = "woken"]_vars

\* two threads ran to their end; the waiter slept through the first removal
\* and was woken by the second, the only wakeAll
C24_Witness ==
    /\ \A r \in Rits : rit[r].pc = "finished" /\ rit[r].work = 1
    /\ extant = {}
    /\ wakeAlls = 1
    /\ waiter.pc = "returned" /\ waiter.res = "true" /\ waiter.hasNum /\ waiter.num = 2

\* C25: a RunInThread whose constructor found blockNew set is never in
\* extant, its thread is never started, and neither its work function nor
\* its completion callback runs.
C25_BlockedNeverRuns ==
    \A r \in Rits :
        rit[r].blocked =>
            /\ r \notin extant
            /\ rit[r].pc = "refused"
            /\ rit[r].work = 0
            /\ ~rit[r].queued /\ rit[r].completion = 0

\* blockNew was set between two constructions: the first ran, work and
\* completion; the second was refused
C25_Witness ==
    /\ blockNew /\ ritRefused = {2}
    /\ rit[1].pc = "finished" /\ rit[1].work = 1 /\ rit[1].completion = 1
    /\ rit[2].blocked /\ rit[2].pc = "refused" /\ rit[2].work = 0

----------------------------------------------------------------------------
(* Properties of App::parseArgs: limits and Tor credentials *)

\* the value the config file gives key k (the empty string if none)
ConfGiven(k) == ConfValue(conf, k, "")

\* a value that is a negative number, or is not empty and not a number
NegativeOrNotInteger(v) == v # "" /\ (~ToInt(v).ok \/ ToInt(v).val < 0)

\* C21: after a successful resolution maxClientsPerIP is not negative, and
\* a max_clients_per_ip in the config file that is negative or not an
\* integer makes the resolution fail with a BadArgs.
C21_ClientCapNonNegative ==
    /\ parsePc \in {"done", "running"} => options.maxClientsPerIP >= 0
    /\ (parsePc # "start" /\ NegativeOrNotInteger(ConfGiven("max_clients_per_ip")))
          => parseErr \in BadArgsErrors

\* C22: a tor_pass in the config file ends up in torPass, and torUser is
\* what tor_user gave it, or its default.
C22_TorPassOwnField ==
    (parsePc \in {"done", "running"} /\ ConfHasValue(conf, "tor_pass")) =>
        /\ options.torPass = ConfGiven("tor_pass")
        /\ options.torUser = ConfGiven("tor_user")

----------------------------------------------------------------------------
(* Properties of the Options while the server runs *)

\* C29: once the options are resolved, and after every later call of
\* on_setVerboseDebug and on_setVerboseTrace, verboseTrace is not true while
\* verboseDebug is false.
C29_TraceImpliesDebug ==
    parsePc \in {"done", "running"} => (options.verboseTrace => options.verboseDebug)

\* a max_buffer within [maxBufferMin, maxBufferMax]
InRange(m) == maxBufferMin <= m /\ m <= maxBufferMax

\* throttle parameters that are all at least 0 with hi not below lo
ValidParams(p) == 0 <= p.lo /\ p.lo <= p.hi /\ 0 <= p.decay

\* C30: the stored maxBuffer is always within its bounds and the stored
\* throttle parameters are always valid; an on_requestMaxBufferChange or an
\* on_bitcoindThrottleParamsChange with bad arguments changes no option and
\* prints a warning, and one with good arguments stores exactly them.
C30_RuntimeChangesChecked ==
    /\ [](parsePc \in {"done", "running"} =>
            InRange(options.maxBuffer) /\ ValidParams(options.bdReqThrottleParams))
    /\ [][lastReq' # lastReq =>
            /\ lastReq'.kind = "maxBuffer" =>
                  IF InRange(lastReq'.m)
                    THEN options' = [options EXCEPT !.maxBuffer = lastReq'.m]
                         /\ ~lastReq'.warned
                    ELSE options' = options /\ lastReq'.warned
            /\ lastReq'.kind = "throttle" =>
                  IF ValidParams(lastReq'.p)
                    THEN options' = [options EXCEPT !.bdReqThrottleParams = lastReq'.p]
                         /\ ~lastReq'.warned
                    ELSE options' = options /\ lastReq'.warned]_vars

\* max_buffer = 2 in the config file, then a request for 5 was refused with
\* a warning and left the 2 in place
C30_Witness ==
    /\ parsePc = "running" /\ ConfGiven("max_buffer") = "2"
    /\ lastReq.kind = "maxBuffer" /\ lastReq.m = maxBufferMax + 1 /\ lastReq.warned
    /\ options.maxBuffer = 2

----------------------------------------------------------------------------
(* Properties of the stats servers and the Controller *)

\* C28: whenever a stats HTTP server runs, the Controller exists and has
\* started; a server is started only once the Controller's startup has
\* succeeded, and the Controller is cleaned up and released only when every
\* stats server has been stopped and discarded.
C28_ControllerOutlivesStatsServers ==
    /\ [](httpServers # {} => controller = "up")
    /\ [][~(httpServers' \subseteq httpServers) => controller = "up" /\ controller' = "up"]_vars
    /\ [][controller' = "released" => httpServers = {} /\ httpServers' = {}]_vars

\* cleanup is about to stop the two stats servers that were started after
\* the Controller, which is still up
C28_Witness ==
    /\ appPc = "stophttp" /\ httpServers = {1, 2} /\ statsLeft = 0
    /\ controller = "up" /\ poolRes = "drained"
====
